---- MODULE Spec2Model ----
(***************************************************************************)
(* Model of the myllm runtime core: the LRU model cache                    *)
(* (app/services/model_loader.py) with the callers that borrow engines     *)
(* from it (app/services/inference.py, app/services/embeddings.py), the    *)
(* prompt composer (app/core/prompt.py, app/core/templates.py) and the     *)
(* streaming output sanitizer (app/engine/sanitizer.py).                   *)
(***************************************************************************)
EXTENDS Integers, Sequences, FiniteSets, TLC

(***************************************************************************)
(* Bounds of the model.                                                    *)
(***************************************************************************)
NumNames == 3
MaxCapacity == 2
MaxMessages == 2
MaxTokens == 3
MaxChunks == 2
MaxPieces == 3
MaxPasses == 2
MaxTrimMessages == 3
MaxBudget == 36
MaxDelivered == 2
MaxRows == 3

\* the concurrent callers
Procs == {1, 2}
Names == 1..NumNames
NoProc == 0
NoName == 0
\* Identities of the engine objects alive at once: of one name, the cached or
\* loading one and those other callers still hold.
Slots == Names \X Procs
NoEngine == <<NoName, 0>>

VARIABLES
    max_models,     \* ModelLoader.max_models
    loaded,         \* ModelLoader._loaded_models: OrderedDict, oldest first
    lock,           \* ModelLoader._lock: the caller holding it, or NoProc
    engines,        \* the LlamaCppModel objects alive, by identity
    reg_loaded,     \* ModelRegistry._models[n].loaded
    pc,             \* where each caller is
    model_name,     \* the caller's model_name argument
    model,          \* the caller's local `model`
    raised,         \* the exception delivered to the caller
    recency,
                   \* history: cached names by last successful get_or_load_model
    loads,          \* history: native loads of a name since it was last absent
    closeLog,       \* history: the close() calls of the load or unload_model
                    \* that just returned
    family,         \* chat: model_config.family
    all_messages,   \* chat: the retained messages, oldest first
    chat_pc,        \* chat: where the request is
    prompt,         \* chat: what build_prompt returned or raised
    engine_prompt,  \* chat: the prompt handed to the inference service
    delivered,      \* chat: the token events delivered to the client, in order
    stop_tokens,    \* OutputSanitizer.stop_tokens
    buffer,         \* OutputSanitizer.buffer
    result,         \* what the last sanitize_token call returned
    emitted,        \* history: the concatenation of the results that were not None
    stream,         \* the raw tokens the engine has still to produce
    san_text,       \* whole-text path: the text in hand
    previous,       \* whole-text path: the text the last sanitize call was given
    passes,         \* whole-text path: the sanitize calls made so far
    tk_messages,    \* estimate_trimmed_messages: messages
    tk_max_tokens,  \* estimate_trimmed_messages: max_tokens of the last call
    tk_result,      \* the positions in messages of what the last call returned
    tk_calls,       \* history: calls made on these messages (2 = two or more)
    stored,         \* the session's rows of the messages table, by created_at
    rq_pc,          \* where each chat request on the session is
    rq_user,        \* the request's user_message_content
    rq_delivered,   \* the tokens delivered to the request's client, in order
    completed,      \* history: the requests whose handler has ended, in order
    rq_events,      \* the kinds of the events sent on the request's stream
    db_sessions,    \* sessions table: updated_at by id, or Absent, or Deleted
    db_messages,    \* messages table: the rows
    db_now,         \* datetime.utcnow()
    db_next_id,     \* the number of the next message row
    db_result,      \* what the last Database call returned
    fs_dirs,        \* the models directory: what each subdirectory holds
    rg_models,      \* ModelRegistry._models: the names registered
    ch_result,      \* the last registry scan or chat request and its outcome
    loop_running,   \* the handler the event loop thread is executing, or NoHandler
    hd_pc,          \* where each request handler is
    hd_stream,      \* request.stream of an inference request
    hd_tokens,      \* the tokens the request's generator has produced
    kv_cache,       \* Cache._cache: OrderedDict of key -> (value, expiry)
    kv_max_size,    \* Cache.max_size
    kv_default_ttl, \* Cache.default_ttl
    kv_now,         \* time.time()
    kv_result,      \* the last Cache call and what it returned
    kv_hist,        \* history: per key the latest set, until invalidated or evicted
    bg_context_size,        \* chat: model_config.context_size
    bg_max_tokens,          \* chat: options.max_tokens, or NoValue
    bg_default_max_tokens,  \* Settings.default_max_tokens
    bg_result,      \* the prompt budget and the max_tokens given to the engine
    adm_pc,         \* where each caller of the loader's other methods is
    adm_op          \* the method that caller is in, and its argument

cacheVars == <<max_models, loaded, lock, engines, reg_loaded, pc, model_name,
               model, raised, recency, loads, closeLog>>

promptVars == <<family, all_messages, chat_pc, prompt, engine_prompt, delivered>>

sanVars == <<stop_tokens, buffer, result, emitted, stream>>

textVars == <<san_text, previous, passes>>

trimVars == <<tk_messages, tk_max_tokens, tk_result, tk_calls>>

sessionVars == <<stored, rq_pc, rq_user, rq_delivered, completed, rq_events>>

dbVars == <<db_sessions, db_messages, db_now, db_next_id, db_result>>

chatVars == <<fs_dirs, rg_models, ch_result>>

loopVars == <<loop_running, hd_pc, hd_stream, hd_tokens>>

kvVars == <<kv_cache, kv_max_size, kv_default_ttl, kv_now, kv_result, kv_hist>>

budgetVars == <<bg_context_size, bg_max_tokens, bg_default_max_tokens, bg_result>>

adminVars == <<adm_pc, adm_op>>

vars == <<cacheVars, promptVars, sanVars, textVars, trimVars, sessionVars, dbVars,
          chatVars, loopVars, kvVars, budgetVars, adminVars>>

NoError == [kind |-> "none", by |-> NoProc]
FreeSlot == [alive |-> FALSE, open |-> FALSE]

(***************************************************************************)
(* The ordered dictionary _loaded_models: a sequence of [name, model],     *)
(* oldest first.                                                           *)
(***************************************************************************)
RECURSIVE Without(_, _)
Without(c, n) ==
    IF c = <<>> THEN <<>>
    ELSE IF Head(c).name = n THEN Without(Tail(c), n)
    ELSE <<Head(c)>> \o Without(Tail(c), n)

CachedNames(c) == {c[i].name : i \in 1..Len(c)}

CachedEngines(c) == {c[i].model : i \in 1..Len(c)}

\* self._loaded_models[n]
Lookup(c, n) == c[CHOOSE i \in 1..Len(c) : c[i].name = n].model

\* a hit that leaves the entry where it is
MoveToEndSkipped(c, n) == c

\* OrderedDict.move_to_end(n)
MoveToEnd(c, n) == Without(c, n) \o <<[name |-> n, model |-> Lookup(c, n)]>>

\* self._loaded_models[n] = model
SetItem(c, n, e) ==
    IF n \in CachedNames(c)
    THEN [i \in 1..Len(c) |-> IF c[i].name = n THEN [name |-> n,
            model |-> e] ELSE c[i]]
    ELSE Append(c, [name |-> n, model |-> e])

\* LlamaCppModel.close(): drops the native model; a second call changes nothing.
Close(es, e) == [es EXCEPT ![e] = [@ EXCEPT !.open = FALSE]]

\* ModelRegistry.update_model_loaded_status
UpdateModelLoadedStatus(reg, n, flag) ==
    IF n \in DOMAIN reg THEN [reg EXCEPT ![n] = flag] ELSE reg

\* an unload that drops the entry and leaves its engine open
UnloadModelWithoutClose(st, n) ==
    IF n \in CachedNames(st.c)
    THEN [c   |-> Without(st.c, n),
          es  |-> st.es,
          reg |-> UpdateModelLoadedStatus(st.reg, n, FALSE),
          log |-> st.log]
    ELSE st

\* ModelLoader._unload_model on the loader state st = [c, es, reg, log]
UnloadModel(st, n) ==
    IF n \in CachedNames(st.c)
    THEN [c   |-> Without(st.c, n),
          es  |-> Close(st.es, Lookup(st.c, n)),
          reg |-> UpdateModelLoadedStatus(st.reg, n, FALSE),
          log |-> Append(st.log, Lookup(st.c, n))]
    ELSE st

\* an eviction loop that picks the newest entry
NewestName(c) == c[Len(c)].name

\* the name the eviction loop picks: next(iter(self._loaded_models))
OldestName(c) == Head(c).name

\* the while loop of get_or_load_model
RECURSIVE EvictOverLimit(_, _)
EvictOverLimit(st, cap) ==
    IF Len(st.c) > cap
    THEN EvictOverLimit(UnloadModel(st, OldestName(st.c)), cap)
    ELSE st

\* the for loop of unload_all over list(self._loaded_models.keys())
RECURSIVE UnloadEach(_, _)
UnloadEach(st, ns) ==
    IF ns = <<>> THEN st
    ELSE UnloadEach(UnloadModel(st, Head(ns)), Tail(ns))

LoaderState == [c |-> loaded, es |-> engines, reg |-> reg_loaded, log |-> <<>>]

\* An engine object nothing refers to any more is reclaimed: __del__ calls
\* close() once more, which finds the native model already dropped.
Reclaim(es, c, held) ==
    [e \in Slots |-> IF e \in CachedEngines(c) \cup held THEN es[e] ELSE FreeSlot]

Held(m) == {m[p] : p \in Procs} \ {NoEngine}

FreshSlot(es, n) == CHOOSE e \in Slots :
    /\ e[1] = n
    /\ es[e] = FreeSlot
    /\ \A f \in Slots : (f[1] = n /\ es[f] = FreeSlot) => e[2] <= f[2]

\* the recency history keeps the names still cached
RecencyOf(rec, c) == SelectSeq(rec, LAMBDA n : n \in CachedNames(c))

\* the load history of a name restarts when the name leaves the cache
LoadsOf(ls, c, loading) ==
    [n \in Names |-> IF n \in CachedNames(c) \cup loading THEN ls[n] ELSE 0]

Loading == {model_name[q] : q \in {r \in Procs : pc[r] = "loading"}}

\* a loader that takes no lock
LockIgnored == TRUE

\* with self._lock: the lock can be taken
LockFree == lock = NoProc

(***************************************************************************)
(* Initial state: ModelLoader.__init__, every caller idle.                 *)
(***************************************************************************)
InitCache ==
    /\ max_models \in 1..MaxCapacity
    /\ loaded = <<>>
    /\ lock = NoProc
    /\ engines = [e \in Slots |-> FreeSlot]
    /\ reg_loaded = [n \in Names |-> FALSE]
    /\ pc = [p \in Procs |-> "idle"]
    /\ model_name = [p \in Procs |-> NoName]
    /\ model = [p \in Procs |-> NoEngine]
    /\ raised = [p \in Procs |-> NoError]
    /\ recency = <<>>
    /\ loads = [n \in Names |-> 0]
    /\ closeLog = <<>>

\* A request enters get_or_load_model(n) and reaches `with self._lock`.
Call(p, n) ==
    /\ pc[p] = "idle"
    /\ pc' = [pc EXCEPT ![p] = "wait"]
    /\ model_name' = [model_name EXCEPT ![p] = n]
    /\ UNCHANGED <<max_models, loaded, lock, engines, reg_loaded, model,
                   raised, recency, loads>>
    /\ closeLog' = <<>>
    /\ UNCHANGED <<promptVars, sanVars, textVars, trimVars, sessionVars,
                   dbVars, chatVars, loopVars, kvVars, budgetVars,
                   adminVars>>

\* Cache hit: lock taken, entry moved to the end, engine returned, lock released.
GetHit(p) ==
    /\ pc[p] = "wait"
    /\ LockFree
    /\ model_name[p] \in CachedNames(loaded)
    /\ loaded' = MoveToEnd(loaded, model_name[p])
    /\ model' = [model EXCEPT ![p] = Lookup(loaded, model_name[p])]
    /\ pc' = [pc EXCEPT ![p] = "have"]
    /\ recency' = SelectSeq(recency,
            LAMBDA n : n # model_name[p]) \o <<model_name[p]>>
    /\ UNCHANGED <<max_models, lock, engines, reg_loaded, model_name, raised,
                   loads>>
    /\ closeLog' = <<>>
    /\ UNCHANGED <<promptVars, sanVars, textVars, trimVars, sessionVars,
                   dbVars, chatVars, loopVars, kvVars, budgetVars,
                   adminVars>>

\* Cache miss: lock taken and the native load started with the lock held.
GetMiss(p) ==
    /\ pc[p] = "wait"
    /\ LockFree
    /\ model_name[p] \notin CachedNames(loaded)
    /\ lock' = p
    /\ LET e == FreshSlot(engines, model_name[p])
       IN /\ engines' = [engines EXCEPT ![e] = [alive |-> TRUE, open |-> FALSE]]
          /\ model' = [model EXCEPT ![p] = e]
    /\ loads' = [loads EXCEPT ![model_name[p]] = @ + 1]
    /\ pc' = [pc EXCEPT ![p] = "loading"]
    /\ UNCHANGED <<max_models, loaded, reg_loaded, model_name, raised,
                   recency>>
    /\ closeLog' = <<>>
    /\ UNCHANGED <<promptVars, sanVars, textVars, trimVars, sessionVars,
                   dbVars, chatVars, loopVars, kvVars, budgetVars,
                   adminVars>>

\* The native load succeeded: insert, mark loaded, evict, return.
LoadOk(p) ==
    /\ pc[p] = "loading"
    /\ LET e   == model[p]
           n   == model_name[p]
           st  == [c   |-> SetItem(loaded, n, e),
                   es  |-> [engines EXCEPT ![e] = [@ EXCEPT !.open = TRUE]],
                   reg |-> UpdateModelLoadedStatus(reg_loaded, n, TRUE),
                   log |-> <<>>]
           fin == EvictOverLimit(st, max_models)
       IN /\ loaded' = fin.c
          /\ engines' = Reclaim(fin.es, fin.c, Held(model))
          /\ reg_loaded' = fin.reg
          /\ closeLog' = fin.log
          /\ recency' = RecencyOf(SelectSeq(recency,
                  LAMBDA m : m # n) \o <<n>>, fin.c)
          /\ loads' = LoadsOf(loads, fin.c, Loading \ {n})
    /\ lock' = NoProc
    /\ pc' = [pc EXCEPT ![p] = "have"]
    /\ UNCHANGED <<max_models, model_name, model, raised>>
    /\ UNCHANGED <<promptVars, sanVars, textVars, trimVars, sessionVars,
                   dbVars, chatVars, loopVars, kvVars, budgetVars,
                   adminVars>>

\* a single-flight loader: the failure is handed to the waiters too
LoadFailBroadcast(p) ==
    /\ pc[p] = "loading"
    /\ engines' = [engines EXCEPT ![model[p]] = FreeSlot]
    /\ model' = [model EXCEPT ![p] = NoEngine]
    /\ raised' = [q \in Procs |->
                    IF q = p \/ (pc[q] = "wait" /\ model_name[q] = model_name[p])
                    THEN [kind |-> "ModelLoadError", by |-> p] ELSE raised[q]]
    /\ pc' = [q \in Procs |->
                IF q = p \/ (pc[q] = "wait" /\ model_name[q] = model_name[p])
                THEN "raised" ELSE pc[q]]
    /\ loads' = LoadsOf(loads, loaded, Loading \ {model_name[p]})
    /\ lock' = NoProc
    /\ closeLog' = <<>>
    /\ UNCHANGED <<max_models, loaded, reg_loaded, model_name, recency>>
    /\ UNCHANGED <<promptVars, sanVars, textVars, trimVars, sessionVars,
                   dbVars, chatVars, loopVars, kvVars, budgetVars,
                   adminVars>>

\* a loader that makes room for the new model before it loads it
LoadFailAfterEviction(p) ==
    /\ pc[p] = "loading"
    /\ LET fin == EvictOverLimit(LoaderState, max_models - 1)
       IN /\ loaded' = fin.c
          /\ model' = [model EXCEPT ![p] = NoEngine]
          /\ engines' = Reclaim([fin.es EXCEPT ![model[p]] = FreeSlot], fin.c,
                                Held(model'))
          /\ reg_loaded' = fin.reg
          /\ closeLog' = fin.log
          /\ recency' = RecencyOf(recency, fin.c)
          /\ loads' = LoadsOf(loads, fin.c, Loading \ {model_name[p]})
    /\ raised' = [raised EXCEPT ![p] = [kind |-> "ModelLoadError", by |-> p]]
    /\ lock' = NoProc
    /\ pc' = [pc EXCEPT ![p] = "raised"]
    /\ UNCHANGED <<max_models, model_name>>
    /\ UNCHANGED <<promptVars, sanVars, textVars, trimVars, sessionVars,
                   dbVars, chatVars, loopVars, kvVars, budgetVars,
                   adminVars>>

\* a failed load that leaves without releasing the lock
LoadFailKeepingLock(p) ==
    /\ pc[p] = "loading"
    /\ engines' = [engines EXCEPT ![model[p]] = FreeSlot]
    /\ model' = [model EXCEPT ![p] = NoEngine]
    /\ raised' = [raised EXCEPT ![p] = [kind |-> "ModelLoadError", by |-> p]]
    /\ loads' = LoadsOf(loads, loaded, Loading \ {model_name[p]})
    /\ pc' = [pc EXCEPT ![p] = "raised"]
    /\ UNCHANGED <<max_models, loaded, lock, reg_loaded, model_name, recency>>
    /\ closeLog' = <<>>
    /\ UNCHANGED <<promptVars, sanVars, textVars, trimVars, sessionVars,
                   dbVars, chatVars, loopVars, kvVars, budgetVars,
                   adminVars>>

\* The native load raised: ModelLoadError to this caller, lock released.
LoadFail(p) ==
    /\ pc[p] = "loading"
    /\ engines' = [engines EXCEPT ![model[p]] = FreeSlot]
    /\ model' = [model EXCEPT ![p] = NoEngine]
    /\ raised' = [raised EXCEPT ![p] = [kind |-> "ModelLoadError", by |-> p]]
    /\ loads' = LoadsOf(loads, loaded, Loading \ {model_name[p]})
    /\ lock' = NoProc
    /\ pc' = [pc EXCEPT ![p] = "raised"]
    /\ UNCHANGED <<max_models, loaded, reg_loaded, model_name, recency>>
    /\ closeLog' = <<>>
    /\ UNCHANGED <<promptVars, sanVars, textVars, trimVars, sessionVars,
                   dbVars, chatVars, loopVars, kvVars, budgetVars,
                   adminVars>>

\* The caller starts model.generate / model.embed on the engine it was given.
InferStart(p) ==
    /\ pc[p] = "have"
    /\ IF engines[model[p]].open
       THEN /\ pc' = [pc EXCEPT ![p] = "gen"]
            /\ UNCHANGED <<raised, model, engines>>
       ELSE /\ pc' = [pc EXCEPT ![p] = "raised"]
            /\ raised' = [raised EXCEPT ![p] = [kind |-> "InferenceError",
                    by |-> p]]
            /\ model' = [model EXCEPT ![p] = NoEngine]
            /\ engines' = Reclaim(engines, loaded, Held(model'))
    /\ UNCHANGED <<max_models, loaded, lock, reg_loaded, model_name,
                   recency, loads>>
    /\ closeLog' = <<>>
    /\ UNCHANGED <<promptVars, sanVars, textVars, trimVars, sessionVars,
                   dbVars, chatVars, loopVars, kvVars, budgetVars,
                   adminVars>>

\* The generate / embed call ends and the caller drops the engine.
InferEnd(p) ==
    /\ pc[p] = "gen"
    /\ pc' = [pc EXCEPT ![p] = "idle"]
    /\ model_name' = [model_name EXCEPT ![p] = NoName]
    /\ model' = [model EXCEPT ![p] = NoEngine]
    /\ engines' = Reclaim(engines, loaded, Held(model'))
    /\ UNCHANGED <<max_models, loaded, lock, reg_loaded, raised, recency,
                   loads>>
    /\ closeLog' = <<>>
    /\ UNCHANGED <<promptVars, sanVars, textVars, trimVars, sessionVars,
                   dbVars, chatVars, loopVars, kvVars, budgetVars,
                   adminVars>>

\* The request that got an exception ends.
Finish(p) ==
    /\ pc[p] = "raised"
    /\ pc' = [pc EXCEPT ![p] = "idle"]
    /\ model_name' = [model_name EXCEPT ![p] = NoName]
    /\ raised' = [raised EXCEPT ![p] = NoError]
    /\ UNCHANGED <<max_models, loaded, lock, engines, reg_loaded, model,
                   recency, loads>>
    /\ closeLog' = <<>>
    /\ UNCHANGED <<promptVars, sanVars, textVars, trimVars, sessionVars,
                   dbVars, chatVars, loopVars, kvVars, budgetVars,
                   adminVars>>

\* ModelLoader.unload_model(n), from POST /api/models/{n}/unload; on a name
\* that is not cached _unload_model does nothing and no step is taken
Unload(n) ==
    /\ LockFree
    /\ n \in CachedNames(loaded)
    /\ LET fin == UnloadModel(LoaderState, n)
       IN /\ loaded' = fin.c
          /\ engines' = Reclaim(fin.es, fin.c, Held(model))
          /\ reg_loaded' = fin.reg
          /\ closeLog' = fin.log
          /\ recency' = RecencyOf(recency, fin.c)
          /\ loads' = LoadsOf(loads, fin.c, Loading)
    /\ UNCHANGED <<max_models, lock, pc, model_name, model, raised>>
    /\ UNCHANGED <<promptVars, sanVars, textVars, trimVars, sessionVars,
                   dbVars, chatVars, loopVars, kvVars, budgetVars,
                   adminVars>>

\* ModelLoader.unload_all(), from shutdown_model_loader
UnloadAll ==
    /\ LockFree
    /\ loaded # <<>>
    /\ LET fin == UnloadEach(LoaderState,
            [i \in 1..Len(loaded) |-> loaded[i].name])
       IN /\ loaded' = fin.c
          /\ engines' = Reclaim(fin.es, fin.c, Held(model))
          /\ reg_loaded' = fin.reg
          /\ closeLog' = <<>>
          /\ recency' = RecencyOf(recency, fin.c)
          /\ loads' = LoadsOf(loads, fin.c, Loading)
    /\ UNCHANGED <<max_models, lock, pc, model_name, model, raised>>
    /\ UNCHANGED <<promptVars, sanVars, textVars, trimVars, sessionVars,
                   dbVars, chatVars, loopVars, kvVars, budgetVars,
                   adminVars>>

NextCache ==
    \/ \E p \in Procs, n \in Names : Call(p, n)
    \/ \E p \in Procs : GetHit(p)
    \/ \E p \in Procs : GetMiss(p)
    \/ \E p \in Procs : LoadOk(p)
    \/ \E p \in Procs : LoadFail(p)
    \/ \E p \in Procs : InferStart(p)
    \/ \E p \in Procs : InferEnd(p)
    \/ \E p \in Procs : Finish(p)
    \/ \E n \in Names : Unload(n)
    \/ UnloadAll

(***************************************************************************)
(* Text.  A Python str is modelled as the sequence of its characters, so   *)
(* that substring tests, formatting and stripping are computed as the code *)
(* computes them.                                                          *)
(***************************************************************************)
Whitespace == {" ", "\n", "\t", "\r"}

\* t occurs in s at position i
OccursAt(s, t, i) ==
    /\ i >= 1
    /\ i + Len(t) - 1 <= Len(s)
    /\ \A k \in 1..Len(t) : s[i + k - 1] = t[k]

Occurrences(s, t) == {i \in 1..(Len(s) - Len(t) + 1) : OccursAt(s, t, i)}

\* t in s
Contains(s, t) == \E i \in 1..(Len(s) - Len(t) + 1) : OccursAt(s, t, i)

\* s.find(t), 1-based; 0 when absent
Find(s, t) ==
    IF Contains(s, t)
    THEN CHOOSE i \in Occurrences(s, t) : \A j \in Occurrences(s, t) : i <= j
    ELSE 0

StartsWith(s, t) == OccursAt(s, t, 1)

EndsWith(s, t) == Len(t) <= Len(s) /\ OccursAt(s, t, Len(s) - Len(t) + 1)

Drop(s, k) == SubSeq(s, k + 1, Len(s))

\* str.lstrip()
RECURSIVE Lstrip(_)
Lstrip(s) ==
    IF s # <<>> /\ Head(s) \in Whitespace THEN Lstrip(Tail(s)) ELSE s

\* "".join(parts)
RECURSIVE Join(_)
Join(parts) == IF parts = <<>> THEN <<>> ELSE Head(parts) \o Join(Tail(parts))

(***************************************************************************)
(* The template registry.                                                  *)
(***************************************************************************)

Placeholder == <<"{", "c", "o", "n", "t", "e", "n", "t", "}">>

BOS_S == <<"<", "s", ">">>

EOS_S == <<"<", "/", "s", ">">>

BOS_LLAMA3 == <<"<", "|", "b", "e", "g", "i", "n", "_", "o", "f", "_", "t",
    "e", "x", "t", "|", ">">>

EOT_ID == <<"<", "|", "e", "o", "t", "_", "i", "d", "|", ">">>

IM_END == <<"<", "|", "i", "m", "_", "e", "n", "d", "|", ">">>

INST == <<"[", "I", "N", "S", "T", "]">>

HASHES == <<"#", "#", "#">>

Template_llama ==
    [name |-> "llama",
     system_format |-> <<"<", "<", "S", "Y", "S", ">", ">", "\n", "{", "c",
             "o", "n", "t", "e", "n", "t", "}", "\n", "<", "<", "/", "S",
             "Y", "S", ">", ">", "\n", "\n">>,
     user_format |-> <<"[", "I", "N", "S", "T", "]", " ", "{", "c", "o", "n",
             "t", "e", "n", "t", "}", " ", "[", "/", "I", "N", "S", "T", "]">>,
     assistant_format |-> <<"{", "c", "o", "n", "t", "e", "n", "t", "}", "<",
             "/", "s", ">">>,
     bos_token |-> BOS_S,
     eos_token |-> EOS_S,
     stop_tokens |-> <<EOS_S, INST>>]

Template_llama3 ==
    [name |-> "llama3",
     system_format |-> <<"<", "|", "s", "t", "a", "r", "t", "_", "h", "e",
             "a", "d", "e", "r", "_", "i", "d", "|", ">", "s", "y", "s", "t",
             "e", "m", "<", "|", "e", "n", "d", "_", "h", "e", "a", "d", "e",
             "r", "_", "i", "d", "|", ">", "\n", "\n", "{", "c", "o", "n",
             "t", "e", "n", "t", "}", "<", "|", "e", "o", "t", "_", "i", "d",
             "|", ">">>,
     user_format |-> <<"<", "|", "s", "t", "a", "r", "t", "_", "h", "e", "a",
             "d", "e", "r", "_", "i", "d", "|", ">", "u", "s", "e", "r", "<",
             "|", "e", "n", "d", "_", "h", "e", "a", "d", "e", "r", "_", "i",
             "d", "|", ">", "\n", "\n", "{", "c", "o", "n", "t", "e", "n",
             "t", "}", "<", "|", "e", "o", "t", "_", "i", "d", "|", ">">>,
     assistant_format |-> <<"<", "|", "s", "t", "a", "r", "t", "_", "h", "e",
             "a", "d", "e", "r", "_", "i", "d", "|", ">", "a", "s", "s", "i",
             "s", "t", "a", "n", "t", "<", "|", "e", "n", "d", "_", "h", "e",
             "a", "d", "e", "r", "_", "i", "d", "|", ">", "\n", "\n", "{",
             "c", "o", "n", "t", "e", "n", "t", "}", "<", "|", "e", "o", "t",
             "_", "i", "d", "|", ">">>,
     bos_token |-> BOS_LLAMA3,
     eos_token |-> EOT_ID,
     stop_tokens |-> <<EOT_ID>>]

Template_mistral ==
    [name |-> "mistral",
     system_format |-> <<"<", "<", "S", "Y", "S", ">", ">", "\n", "{", "c",
             "o", "n", "t", "e", "n", "t", "}", "\n", "<", "<", "/", "S",
             "Y", "S", ">", ">", "\n", "\n">>,
     user_format |-> <<"[", "I", "N", "S", "T", "]", " ", "{", "c", "o", "n",
             "t", "e", "n", "t", "}", " ", "[", "/", "I", "N", "S", "T", "]">>,
     assistant_format |-> <<"{", "c", "o", "n", "t", "e", "n", "t", "}", "<",
             "/", "s", ">">>,
     bos_token |-> BOS_S,
     eos_token |-> EOS_S,
     stop_tokens |-> <<EOS_S>>]

Template_phi ==
    [name |-> "phi",
     system_format |-> <<"#", "#", "#", " ", "S", "y", "s", "t", "e", "m",
             ":", "\n", "{", "c", "o", "n", "t", "e", "n", "t", "}", "\n",
             "\n">>,
     user_format |-> <<"#", "#", "#", " ", "I", "n", "s", "t", "r", "u", "c",
             "t", "i", "o", "n", ":", "\n", "{", "c", "o", "n", "t", "e",
             "n", "t", "}", "\n", "\n">>,
     assistant_format |-> <<"#", "#", "#", " ", "R", "e", "s", "p", "o", "n",
             "s", "e", ":", "\n", "{", "c", "o", "n", "t", "e", "n", "t",
             "}", "\n", "\n">>,
     bos_token |-> <<>>,
     eos_token |-> <<>>,
     stop_tokens |-> <<HASHES>>]

Template_qwen ==
    [name |-> "qwen",
     system_format |-> <<"<", "|", "i", "m", "_", "s", "t", "a", "r", "t",
             "|", ">", "s", "y", "s", "t", "e", "m", "\n", "{", "c", "o",
             "n", "t", "e", "n", "t", "}", "<", "|", "i", "m", "_", "e", "n",
             "d", "|", ">", "\n">>,
     user_format |-> <<"<", "|", "i", "m", "_", "s", "t", "a", "r", "t", "|",
             ">", "u", "s", "e", "r", "\n", "{", "c", "o", "n", "t", "e",
             "n", "t", "}", "<", "|", "i", "m", "_", "e", "n", "d", "|", ">",
             "\n">>,
     assistant_format |-> <<"<", "|", "i", "m", "_", "s", "t", "a", "r", "t",
             "|", ">", "a", "s", "s", "i", "s", "t", "a", "n", "t", "\n",
             "{", "c", "o", "n", "t", "e", "n", "t", "}", "<", "|", "i", "m",
             "_", "e", "n", "d", "|", ">", "\n">>,
     bos_token |-> <<>>,
     eos_token |-> IM_END,
     stop_tokens |-> <<IM_END>>]

Families == {"llama", "llama3", "mistral", "phi", "qwen"}

TEMPLATES ==
    [f \in Families |->
        CASE f = "llama" -> Template_llama
          [] f = "llama3" -> Template_llama3
          [] f = "mistral" -> Template_mistral
          [] f = "phi" -> Template_phi
          [] f = "qwen" -> Template_qwen]

\* get_template(family), for a family of the registry
get_template(f) == TEMPLATES[f]

(***************************************************************************)
(* Message contents a client may send.                                     *)
(***************************************************************************)

Content_boom == <<"<", "s", ">", "b", "o", "o", "m", "<", "/", "s", ">">>

Contents ==
    {<<"H", "i">>,                                                  \* Hi
     Content_boom,
     <<"o", "k", "<", "/", "s", ">">>,                              \* ok</s>
     BOS_LLAMA3,
     IM_END}

\* Message.role
Roles == {"system", "user", "assistant"}

(***************************************************************************)
(* PromptTemplate.build_prompt and PromptBuilder.build_prompt.             *)
(***************************************************************************)
\* fmt.format(content=content)
RECURSIVE Format(_, _)
Format(fmt, content) ==
    LET i == Find(fmt, Placeholder)
    IN IF i = 0 THEN fmt
       ELSE SubSeq(fmt, 1, i - 1) \o content
            \o Format(Drop(fmt, i + Len(Placeholder) - 1), content)

\* fmt.split("{content}")[0]
SplitHead(fmt) ==
    LET i == Find(fmt, Placeholder)
    IN IF i = 0 THEN fmt ELSE SubSeq(fmt, 1, i - 1)

\* the part one message appends
Part(t, msg) ==
    CASE msg.role = "system" -> Format(t.system_format, msg.content)
      [] msg.role = "user" -> Format(t.user_format, msg.content)
      [] msg.role = "assistant" -> Format(t.assistant_format, msg.content)
      [] OTHER -> <<>>

\* PromptTemplate.build_prompt(messages)
TemplateBuildPrompt(t, msgs) ==
    t.bos_token
    \o Join([i \in 1..Len(msgs) |-> Part(t, msgs[i])])
    \o (IF msgs # <<>> /\ msgs[Len(msgs)].role # "assistant"
        THEN SplitHead(t.assistant_format) ELSE <<>>)

\* hard guards that test for BOS only
HardGuardsWithoutEOS(stripped) ==
    IF Contains(stripped, BOS_S) THEN "BOS"
    ELSE IF Contains(stripped, BOS_LLAMA3) THEN "LLAMA3_BOS"
    ELSE "none"

\* the hard guards of PromptBuilder.build_prompt: which one raises
HardGuards(stripped) ==
    IF StartsWith(stripped, BOS_S) \/ Contains(stripped, BOS_S) THEN "BOS"
    ELSE IF Contains(stripped, EOS_S) THEN "EOS"
    ELSE IF Contains(stripped, BOS_LLAMA3) THEN "LLAMA3_BOS"
    ELSE "none"

NoPrompt == [kind |-> "none", text |-> <<>>]

\* PromptBuilder(family).build_prompt(messages): the prompt, or what it raises
BuildPromptOf(f, msgs) ==
    IF msgs = <<>> THEN [kind |-> "ValueError", text |-> <<>>]
    ELSE LET text == TemplateBuildPrompt(get_template(f), msgs)
         IN IF HardGuards(Lstrip(text)) # "none"
            THEN [kind |-> "RuntimeError", text |-> <<>>]
            ELSE [kind |-> "ok", text |-> text]

(***************************************************************************)
(* RuntimeManager.chat from the point where the retained messages are      *)
(* known: build the prompt, then hand it to the inference service.         *)
(***************************************************************************)
InitPrompt ==
    /\ family \in Families
    /\ all_messages = <<>>
    /\ chat_pc = "collect"
    /\ prompt = NoPrompt
    /\ engine_prompt = NoPrompt
    /\ delivered = <<>>

\* one more retained message
Retain(role, content) ==
    /\ chat_pc = "collect"
    /\ Len(all_messages) < MaxMessages
    /\ all_messages' = Append(all_messages, [role |-> role,
            content |-> content])
    /\ UNCHANGED <<family, chat_pc, prompt, engine_prompt, delivered>>
    /\ UNCHANGED <<cacheVars, sanVars, textVars, trimVars, sessionVars,
                   dbVars, chatVars, loopVars, kvVars, budgetVars,
                   adminVars>>

\* steps 4 and 5 of chat: the empty check, then build_prompt
BuildPrompt ==
    /\ chat_pc = "collect"
    /\ prompt' = IF all_messages = <<>>
                 THEN [kind |-> "ContextWindowExceededError", text |-> <<>>]
                 ELSE BuildPromptOf(family, all_messages)
    /\ chat_pc' = IF prompt'.kind = "ok" THEN "built" ELSE "raised"
    /\ UNCHANGED <<family, all_messages, engine_prompt, delivered>>
    /\ UNCHANGED <<cacheVars, sanVars, textVars, trimVars, sessionVars,
                   dbVars, chatVars, loopVars, kvVars, budgetVars,
                   adminVars>>

\* step 6 of chat: inference_service.infer(prompt=prompt, ...)
Infer ==
    /\ chat_pc = "built"
    /\ engine_prompt' = prompt
    /\ chat_pc' = "inferring"
    /\ UNCHANGED <<family, all_messages, prompt, delivered>>
    /\ UNCHANGED <<cacheVars, sanVars, textVars, trimVars, sessionVars,
                   dbVars, chatVars, loopVars, kvVars, budgetVars,
                   adminVars>>

\* the text a role's format puts before the content
RoleMarkers(t) ==
    {SplitHead(t.system_format), SplitHead(t.user_format),
     SplitHead(t.assistant_format)} \ {<<>>}

\* The chunks create_completion may produce: plain text or a role marker of
\* the family; it was given the template's stop tokens and produces none.
EngineChunks(t) ==
    {c \in {<<"H", "i">>} \cup RoleMarkers(t) :
        \A k \in 1..Len(t.stop_tokens) : ~Contains(c, t.stop_tokens[k])}

\* One chunk of the engine goes through infer and stream_tokens_as_sse to the
\* client as a token event.
Deliver(chunk) ==
    /\ chat_pc = "inferring"
    /\ Len(delivered) < MaxChunks
    /\ delivered' = Append(delivered, chunk)
    /\ UNCHANGED <<family, all_messages, chat_pc, prompt, engine_prompt>>
    /\ UNCHANGED <<cacheVars, sanVars, textVars, trimVars, sessionVars,
                   dbVars, chatVars, loopVars, kvVars, budgetVars,
                   adminVars>>

NextPrompt ==
    \/ \E role \in Roles, content \in Contents : Retain(role, content)
    \/ BuildPrompt
    \/ Infer
    \/ \E chunk \in EngineChunks(get_template(family)) : Deliver(chunk)

(***************************************************************************)
(* Regular expressions of the sanitizer.  A pattern is a sequence of        *)
(* elements: a literal character, \\s*, \\s+, an optional character, a group   *)
(* of alternative words (group 1), a reference to group 1, ^ and \\b.  Every *)
(* use in the code passes re.IGNORECASE.                                   *)
(***************************************************************************)
Upper == <<"A", "B", "C", "D", "E", "F", "G", "H", "I", "J", "K", "L", "M",
           "N", "O", "P", "Q", "R", "S", "T", "U", "V", "W", "X", "Y", "Z">>

Lower == <<"a", "b", "c", "d", "e", "f", "g", "h", "i", "j", "k", "l", "m",
           "n", "o", "p", "q", "r", "s", "t", "u", "v", "w", "x", "y", "z">>

\* the character with its case folded
Fold(c) ==
    IF \E i \in 1..Len(Upper) : Upper[i] = c
    THEN Lower[CHOOSE i \in 1..Len(Upper) : Upper[i] = c]
    ELSE c

\* \w
WordChars == {Upper[i] : i \in 1..Len(Upper)} \cup {Lower[i] : i \in 1..Len(Lower)}
             \cup {"0", "1", "2", "3", "4", "5", "6", "7", "8", "9"} \cup {"_"}

IsWordAt(s, i) == i >= 1 /\ i <= Len(s) /\ s[i] \in WordChars

\* w occurs in s at position i, case ignored
OccursAtFold(s, w, i) ==
    /\ i >= 1
    /\ i + Len(w) - 1 <= Len(s)
    /\ \A k \in 1..Len(w) : Fold(s[i + k - 1]) = Fold(w[k])

\* re.escape(text): the characters of text, each matched literally
Lit(text) == [i \in 1..Len(text) |-> [k |-> "lit", c |-> text[i]]]

Ws == <<[k |-> "ws"]>>

Ws1 == <<[k |-> "ws1"]>>

Opt(c) == <<[k |-> "opt", c |-> c]>>

Group(words) == <<[k |-> "group", words |-> words]>>

Ref == <<[k |-> "ref"]>>

Bol == <<[k |-> "bol"]>>

WordBoundary == <<[k |-> "wb"]>>

\* the positions j such that s[i..j-1] is whitespace
WsEnds(s, i) ==
    {j \in i..(Len(s) + 1) : \A m \in i..(j - 1) : s[m] \in Whitespace}

\* The positions where a match of re[k..] that starts at i can end (one past
\* the last matched character); cap is what group 1 matched.
RECURSIVE Ends(_, _, _, _, _)
Ends(re, k, s, i, cap) ==
    IF k > Len(re) THEN {i}
    ELSE LET el == re[k]
         IN CASE el.k = "lit" ->
                   IF i <= Len(s) /\ Fold(s[i]) = Fold(el.c)
                   THEN Ends(re, k + 1, s, i + 1, cap) ELSE {}
              [] el.k = "opt" ->
                   Ends(re, k + 1, s, i, cap)
                   \cup (IF i <= Len(s) /\ Fold(s[i]) = Fold(el.c)
                         THEN Ends(re, k + 1, s, i + 1, cap) ELSE {})
              [] el.k = "ws" ->
                   UNION {Ends(re, k + 1, s, j, cap) : j \in WsEnds(s, i)}
              [] el.k = "ws1" ->
                   UNION {Ends(re, k + 1, s, j, cap) : j \in WsEnds(s, i) \ {i}}
              [] el.k = "group" ->
                   UNION {IF OccursAtFold(s, w, i)
                          THEN Ends(re, k + 1, s, i + Len(w), SubSeq(s, i,
                                  i + Len(w) - 1))
                          ELSE {} : w \in el.words}
              [] el.k = "ref" ->
                   IF OccursAtFold(s, cap, i)
                   THEN Ends(re, k + 1, s, i + Len(cap), cap) ELSE {}
              [] el.k = "bol" ->
                   IF i = 1 THEN Ends(re, k + 1, s, i, cap) ELSE {}
              [] el.k = "wb" ->
                   IF IsWordAt(s, i - 1) # IsWordAt(s, i)
                   THEN Ends(re, k + 1, s, i, cap) ELSE {}

MatchEnds(re, s, i) == Ends(re, 1, s, i, <<>>)

SetMax(S) == CHOOSE x \in S : \A y \in S : y <= x

\* re.fullmatch(re, s)
FullMatch(re, s) == (Len(s) + 1) \in MatchEnds(re, s, 1)

\* re.search(re, s)
Search(re, s) == \E i \in 1..(Len(s) + 1) : MatchEnds(re, s, i) # {}

\* What group 1 matched in the match that starts at i; the group follows
\* zero-width elements only.
Group1(re, s, i) ==
    LET g == CHOOSE k \in 1..Len(re) : re[k].k = "group"
        w == CHOOSE w \in re[g].words :
                 /\ OccursAtFold(s, w, i)
                 /\ Ends(re, g + 1, s, i + Len(w), SubSeq(s, i,
                         i + Len(w) - 1)) # {}
    IN SubSeq(s, i, i + Len(w) - 1)

\* re.sub(p.re, p.repl, s) from position i on: leftmost matches, each as
\* long as the greedy quantifiers make it; no pattern matches the empty text
RECURSIVE SubFrom(_, _, _)
SubFrom(p, s, i) ==
    IF i > Len(s) THEN <<>>
    ELSE LET ends == MatchEnds(p.re, s, i)
         IN IF ends = {} \/ SetMax(ends) = i
            THEN <<s[i]>> \o SubFrom(p, s, i + 1)
            ELSE (IF p.keep1 THEN Group1(p.re, s, i) ELSE <<>>)
                 \o SubFrom(p, s, SetMax(ends))

Sub(p, s) == SubFrom(p, s, 1)

RoleWords == {<<"u", "s", "e", "r">>, <<"a", "s", "s", "i", "s", "t", "a",
        "n", "t">>, <<"s", "y", "s", "t", "e", "m">>}

Strip(re) == [re |-> re, keep1 |-> FALSE]

\* OutputSanitizer.strip_patterns, in order
StripPatterns(stops) ==
    [i \in 1..Len(stops) |-> Strip(Lit(stops[i]))]
    \o << \* <\|im_start\|>\s*(user|assistant|system)\s*
          Strip(Lit(<<"<", "|", "i", "m", "_", "s", "t", "a", "r", "t", "|", ">">>)
                \o Ws \o Group(RoleWords) \o Ws),
          Strip(Lit(IM_END)),
          Strip(Lit(INST)),
          \* \[/INST\]
          Strip(Lit(<<"[", "/", "I", "N", "S", "T", "]">>)),
          \* <<SYS>>
          Strip(Lit(<<"<", "<", "S", "Y", "S", ">", ">">>)),
          \* <</SYS>>
          Strip(Lit(<<"<", "<", "/", "S", "Y", "S", ">", ">">>)),
          Strip(Lit(BOS_S)),
          Strip(Lit(EOS_S)),
          Strip(Lit(BOS_LLAMA3)),
          \* <\|end_of_text\|>
          Strip(Lit(<<"<", "|", "e", "n", "d", "_", "o", "f", "_", "t", "e", "x", "t", "|", ">">>)),
          \* <\|start_header_id\|>\s*(user|assistant|system)\s*<\|end_header_id\|>
          Strip(Lit(<<"<", "|", "s", "t", "a", "r", "t", "_", "h", "e", "a", "d", "e", "r", "_", "i", "d", "|", ">">>)
                \o Ws \o Group(RoleWords) \o Ws
                \o Lit(<<"<", "|", "e", "n", "d", "_", "h", "e", "a", "d", "e", "r", "_", "i", "d", "|", ">">>)),
          Strip(Lit(EOT_ID)),
          \* ###\s*(Instruction|Response|System):\s*
          Strip(Lit(HASHES) \o Ws
                \o Group({<<"I", "n", "s", "t", "r", "u", "c", "t", "i", "o", "n">>,
                          <<"R", "e", "s", "p", "o", "n", "s", "e">>,
                          <<"S", "y", "s", "t", "e", "m">>})
                \o Lit(<<":">>) \o Ws),
          \* \b(assistant|user|system)\s+\1\b, replaced by \1
          [re |-> WordBoundary \o Group(RoleWords) \o Ws1 \o Ref \o WordBoundary,
           keep1 |-> TRUE],
          \* ^\s*(assistant|user|system)\s*:?\s*
          Strip(Bol \o Ws \o Group(RoleWords) \o Ws \o Opt(":") \o Ws) >>

(***************************************************************************)
(* OutputSanitizer: the streaming path.                                    *)
(***************************************************************************)
\* the rolling window of should_stop
BufferWindow == 20

\* self.buffer[-20:]
LastTokens(buf) ==
    IF Len(buf) <= BufferWindow THEN buf
    ELSE SubSeq(buf, Len(buf) - BufferWindow + 1, Len(buf))

\* should_stop, once the token is in the buffer
StopInBuffer(stops, buf) ==
    \E k \in 1..Len(stops) : Contains(Join(LastTokens(buf)), stops[k])

\* the partial cleanup loop of sanitize_token, from pattern k on
RECURSIVE CleanFrom(_, _, _)
CleanFrom(pats, k, cleaned) ==
    IF k > Len(pats) THEN cleaned
    ELSE CleanFrom(pats, k + 1,
                   IF Search(pats[k].re, cleaned) THEN Sub(pats[k], cleaned)
                   ELSE cleaned)

\* not text.strip()
Blank(text) == \A i \in 1..Len(text) : text[i] \in Whitespace

None == [none |-> TRUE, text |-> <<>>]

Some(text) == [none |-> FALSE, text |-> text]

\* sanitize_token(token), buf being the buffer with the token appended
SanitizeTokenOf(stops, buf, token) ==
    LET pats == StripPatterns(stops)
    IN IF StopInBuffer(stops, buf) THEN None
       ELSE IF \E k \in 1..Len(pats) : FullMatch(pats[k].re, token) THEN None
       ELSE LET cleaned == CleanFrom(pats, 1, token)
            IN IF Blank(cleaned) /\ ~Blank(token) THEN None ELSE Some(cleaned)

\* the raw tokens an engine may produce
Tokens == {<<"H", "i">>,                            \* Hi
           <<"<">>,                                 \* <
           <<"<", "s", ">">>,                       \* <s>
           <<"/", "s", ">">>,                       \* /s>
           <<"<", "/">>,                            \* </
           <<"s", ">">>,                            \* s>
           <<"[", "I", "N", "<", "s", ">", "S", "T", "]">>}  \* [IN<s>ST]

\* OutputSanitizer(stop_tokens), stop tokens from a template of the registry
InitSan ==
    /\ stop_tokens \in {TEMPLATES[f].stop_tokens : f \in Families}
    /\ buffer = <<>>
    /\ result = None
    /\ emitted = <<>>
    /\ stream = <<>>

\* one raw token through sanitize_token
SanitizeToken(token) ==
    /\ Len(buffer) < MaxTokens
    /\ buffer' = Append(buffer, token)
    /\ result' = SanitizeTokenOf(stop_tokens, buffer', token)
    /\ emitted' = IF result'.none THEN emitted ELSE emitted \o result'.text
    /\ UNCHANGED <<stop_tokens, stream>>
    /\ UNCHANGED <<cacheVars, promptVars, textVars, trimVars, sessionVars,
                   dbVars, chatVars, loopVars, kvVars, budgetVars,
                   adminVars>>

\* reset() between generations
Reset ==
    /\ buffer # <<>>
    /\ buffer' = <<>>
    /\ result' = None
    /\ emitted' = <<>>
    /\ UNCHANGED <<stop_tokens, stream>>
    /\ UNCHANGED <<cacheVars, promptVars, textVars, trimVars, sessionVars,
                   dbVars, chatVars, loopVars, kvVars, budgetVars,
                   adminVars>>

NextSan ==
    \/ \E token \in Tokens : SanitizeToken(token)
    \/ Reset

(***************************************************************************)
(* A generation: the engine produces the tokens of a fixed stream in order *)
(* and each goes through sanitize_token.                                   *)
(***************************************************************************)
\* the stream "Hel", "lo", " ", "</", "s>", " ignored"
StraddleStream ==
    << <<"H", "e", "l">>, <<"l", "o">>, <<" ">>,
       <<"<", "/">>, <<"s", ">">>,
       <<" ", "i", "g", "n", "o", "r", "e", "d">> >>

\* the tokens of s at the positions in keep, in order
RECURSIVE Pick(_, _, _)
Pick(s, keep, i) ==
    IF i > Len(s) THEN <<>>
    ELSE (IF i \in keep THEN <<s[i]>> ELSE <<>>) \o Pick(s, keep, i + 1)

\* the stream and every stream left when the engine skips some of its tokens
Streams == {Pick(StraddleStream, keep, 1) : keep \in SUBSET (1..Len(StraddleStream))}

InitStream ==
    /\ stop_tokens \in {TEMPLATES[f].stop_tokens : f \in Families}
    /\ buffer = <<>>
    /\ result = None
    /\ emitted = <<>>
    /\ stream \in Streams

\* the next token of the stream through sanitize_token
SanitizeNext ==
    /\ stream # <<>>
    /\ buffer' = Append(buffer, Head(stream))
    /\ result' = SanitizeTokenOf(stop_tokens, buffer', Head(stream))
    /\ emitted' = IF result'.none THEN emitted ELSE emitted \o result'.text
    /\ stream' = Tail(stream)
    /\ UNCHANGED stop_tokens
    /\ UNCHANGED <<cacheVars, promptVars, textVars, trimVars, sessionVars,
                   dbVars, chatVars, loopVars, kvVars, budgetVars,
                   adminVars>>

NextStream == SanitizeNext

(***************************************************************************)
(* OutputSanitizer: the whole-text path.                                   *)
(***************************************************************************)
\* every strip pattern applied in order
RECURSIVE StripAll(_, _, _)
StripAll(pats, k, s) ==
    IF k > Len(pats) THEN s ELSE StripAll(pats, k + 1, Sub(pats[k], s))

\* the length of the run of newlines that starts at i
RECURSIVE NewlineRun(_, _)
NewlineRun(s, i) ==
    IF i <= Len(s) /\ s[i] = "\n" THEN 1 + NewlineRun(s, i + 1) ELSE 0

\* re.sub(r'\n\n\n+', '\n\n', s) from position i on
RECURSIVE CollapseFrom(_, _)
CollapseFrom(s, i) ==
    IF i > Len(s) THEN <<>>
    ELSE IF NewlineRun(s, i) >= 3
         THEN <<"\n", "\n">> \o CollapseFrom(s, i + NewlineRun(s, i))
         ELSE <<s[i]>> \o CollapseFrom(s, i + 1)

\* str.rstrip()
RECURSIVE Rstrip(_)
Rstrip(s) ==
    IF s # <<>> /\ s[Len(s)] \in Whitespace
    THEN Rstrip(SubSeq(s, 1, Len(s) - 1)) ELSE s

\* OutputSanitizer(stops).sanitize(s)
SanitizeOf(stops, s) ==
    Rstrip(Lstrip(CollapseFrom(StripAll(StripPatterns(stops), 1, s), 1)))

\* the pieces raw texts are made of: Hi, [IN, <s>, ST], a newline, a space
Pieces == {<<"H", "i">>, <<"[", "I", "N">>, <<"<", "s", ">">>,
           <<"S", "T", "]">>, <<"\n">>, <<" ">>}

Texts == {Join(ps) : ps \in UNION {[1..n -> Pieces] : n \in 0..MaxPieces}}

TextIdle == san_text = <<>> /\ previous = <<>> /\ passes = 0

InitText ==
    /\ san_text \in Texts
    /\ previous = <<>>
    /\ passes = 0

\* sanitize applied to the text in hand
Sanitize ==
    /\ passes < MaxPasses
    /\ previous' = san_text
    /\ san_text' = SanitizeOf(stop_tokens, san_text)
    /\ passes' = passes + 1
    /\ UNCHANGED <<cacheVars, promptVars, sanVars, trimVars, sessionVars,
                   dbVars, chatVars, loopVars, kvVars, budgetVars,
                   adminVars>>

NextText == Sanitize

(***************************************************************************)
(* Tokenizer: the token estimate and the budgeter.  A result is kept as    *)
(* the positions in `messages` of the messages returned, in order.         *)
(***************************************************************************)
\* Tokenizer.count_tokens(text)
count_tokens(content) ==
    LET approx_tokens == (Len(content) \div 4) + 3
    IN IF approx_tokens > 1 THEN approx_tokens ELSE 1

\* template_overhead.get(template, 5)
template_overhead(template) ==
    CASE template = "chatml" -> 7
      [] template = "llama3" -> 12
      [] template \in {"alpaca", "vicuna"} -> 5
      [] OTHER -> 5

RECURSIVE SumOver(_, _)
SumOver(f, idx) ==
    IF idx = <<>> THEN 0 ELSE f[Head(idx)] + SumOver(f, Tail(idx))

\* Tokenizer.count_messages_tokens(messages at idx, template)
count_messages_tokens(ms, idx, template) ==
    SumOver([i \in 1..Len(ms) |-> count_tokens(ms[i].content) + template_overhead(template)], idx)
    + template_overhead(template)

\* what the budgeter charges for a message
message_tokens(m) == count_tokens(m.content) + 7

\* The loop over reversed(conversation_messages[:-1]) that goes on after a
\* message that does not fit.
RECURSIVE KeepRecentSkipping(_, _, _, _, _)
KeepRecentSkipping(ms, conv, k, current_tokens, available_tokens) ==
    IF k < 1 THEN <<>>
    ELSE IF current_tokens + message_tokens(ms[conv[k]]) <= available_tokens
         THEN KeepRecentSkipping(ms, conv, k - 1, current_tokens + message_tokens(ms[conv[k]]), available_tokens)
              \o <<conv[k]>>
         ELSE KeepRecentSkipping(ms, conv, k - 1, current_tokens, available_tokens)

\* The loop over reversed(conversation_messages[:-1]), from conv[k] back: the
\* messages inserted at the front of trimmed_conversation, until one does not
\* fit.
RECURSIVE KeepRecent(_, _, _, _, _)
KeepRecent(ms, conv, k, current_tokens, available_tokens) ==
    IF k < 1 THEN <<>>
    ELSE IF current_tokens + message_tokens(ms[conv[k]]) <= available_tokens
         THEN KeepRecent(ms, conv, k - 1, current_tokens + message_tokens(ms[conv[k]]), available_tokens)
              \o <<conv[k]>>
         ELSE <<>>

Positions(ms) == [i \in 1..Len(ms) |-> i]

\* Tokenizer.estimate_trimmed_messages(messages, max_tokens)
estimate_trimmed_messages(ms, max) ==
    LET system_messages == SelectSeq(Positions(ms), LAMBDA i : ms[i].role = "system")
        conversation_messages == SelectSeq(Positions(ms), LAMBDA i : ms[i].role # "system")
        system_tokens == SumOver([i \in 1..Len(ms) |-> message_tokens(ms[i])], system_messages)
        available_tokens == max - system_tokens
        last_message == conversation_messages[Len(conversation_messages)]
    IN IF ms = <<>> THEN <<>>
       ELSE IF available_tokens <= 0
            THEN (IF system_messages # <<>> THEN <<Head(system_messages)>> ELSE <<>>)
       ELSE IF conversation_messages = <<>> THEN system_messages
       ELSE IF message_tokens(ms[last_message]) > available_tokens
            THEN system_messages \o <<last_message>>
       ELSE system_messages
            \o KeepRecent(ms, conversation_messages, Len(conversation_messages) - 1,
                          message_tokens(ms[last_message]), available_tokens)
            \o <<last_message>>

\* the message lists given to the budgeter: contents of 2 and of 8 characters
TrimContents == {<<"H", "i">>, <<"H", "e", "l", "l", "o", "!", "!", "!">>}

TrimInputs ==
    UNION {[1..n -> [role : Roles, content : TrimContents]] : n \in 0..MaxTrimMessages}

TrimIdle ==
    /\ tk_messages = <<>>
    /\ tk_max_tokens = 0
    /\ tk_result = <<>>
    /\ tk_calls = 0

InitTrim ==
    /\ tk_messages \in TrimInputs
    /\ tk_max_tokens = 0
    /\ tk_result = <<>>
    /\ tk_calls = 0

\* one call of estimate_trimmed_messages on the messages
Trim(max) ==
    /\ tk_max_tokens' = max
    /\ tk_result' = estimate_trimmed_messages(tk_messages, max)
    /\ tk_calls' = IF tk_calls < 2 THEN tk_calls + 1 ELSE 2
    /\ UNCHANGED tk_messages
    /\ UNCHANGED <<cacheVars, promptVars, sanVars, textVars, sessionVars,
                   dbVars, chatVars, loopVars, kvVars, budgetVars,
                   adminVars>>

NextTrim == \E max \in 0..MaxBudget : Trim(max)

(***************************************************************************)
(* Chat requests on one session: POST /api/chat from the point where       *)
(* runtime.chat has returned the token generator.  A stored row carries    *)
(* the request that wrote it.  Rows are kept in created_at order, the      *)
(* clock taken as strictly increasing from one insert to the next.         *)
(***************************************************************************)
\* the concurrent requests
Requests == {1, 2}

\* user_message_content: empty (also when the request has no user message),
\* or a text
UserContents == {<<>>, <<"H", "i">>}

\* the tokens an engine produces
StreamTokens == {<<"a">>, <<"b">>}

InitSession ==
    /\ stored = <<>>
    /\ rq_pc = [r \in Requests |-> "idle"]
    /\ rq_user = [r \in Requests |-> <<>>]
    /\ rq_delivered = [r \in Requests |-> <<>>]
    /\ completed = <<>>
    /\ rq_events = [r \in Requests |-> <<>>]

\* chat() has the token generator and the request's last user content
ChatStart(r, content) ==
    /\ rq_pc[r] = "idle"
    /\ rq_pc' = [rq_pc EXCEPT ![r] = "streaming"]
    /\ rq_user' = [rq_user EXCEPT ![r] = content]
    /\ UNCHANGED <<stored, rq_delivered, completed, rq_events>>
    /\ UNCHANGED <<cacheVars, promptVars, sanVars, textVars, trimVars,
                   dbVars, chatVars, loopVars, kvVars, budgetVars,
                   adminVars>>

\* one token event reaches the client and the accumulator
StreamToken(r, token) ==
    /\ rq_pc[r] = "streaming"
    /\ Len(rq_delivered[r]) < MaxDelivered
    /\ rq_delivered' = [rq_delivered EXCEPT ![r] = Append(@, token)]
    /\ rq_events' = [rq_events EXCEPT ![r] = Append(@, "token")]
    /\ UNCHANGED <<stored, rq_pc, rq_user, completed>>
    /\ UNCHANGED <<cacheVars, promptVars, sanVars, textVars, trimVars,
                   dbVars, chatVars, loopVars, kvVars, budgetVars,
                   adminVars>>

\* The stream is over: the turn is saved only `if user_message_content`.
AfterStream(r) ==
    /\ IF rq_user[r] # <<>>
       THEN /\ rq_pc' = [rq_pc EXCEPT ![r] = "save_user"]
            /\ UNCHANGED completed
       ELSE /\ rq_pc' = [rq_pc EXCEPT ![r] = "done"]
            /\ completed' = Append(completed, r)
    /\ UNCHANGED <<stored, rq_user, rq_delivered>>
    /\ UNCHANGED <<cacheVars, promptVars, sanVars, textVars, trimVars,
                   dbVars, chatVars, loopVars, kvVars, budgetVars,
                   adminVars>>

\* The token generator is exhausted: the completion event is delivered (or
\* the non-streaming list is complete).
StreamDone(r) ==
    /\ rq_pc[r] = "streaming"
    /\ rq_events' = [rq_events EXCEPT ![r] = Append(@, "done")]
    /\ AfterStream(r)

\* The token generator raises: stream_tokens_as_sse sends its error event
\* and ends, and generate_sse goes on to the save.
StreamError(r) ==
    /\ rq_pc[r] = "streaming"
    /\ rq_events' = [rq_events EXCEPT ![r] = Append(@, "error")]
    /\ AfterStream(r)

\* Database.add_message(session_id, role, content): one transaction
add_message(rows, r, role, content) ==
    Append(rows, [role |-> role, content |-> content, request |-> r])

\* save_conversation_turn: await add_message(session_id, "user", ...)
AddUserMessage(r) ==
    /\ rq_pc[r] = "save_user"
    /\ stored' = add_message(stored, r, "user", rq_user[r])
    /\ rq_pc' = [rq_pc EXCEPT ![r] = "save_assistant"]
    /\ UNCHANGED <<rq_user, rq_delivered, completed, rq_events>>
    /\ UNCHANGED <<cacheVars, promptVars, sanVars, textVars, trimVars,
                   dbVars, chatVars, loopVars, kvVars, budgetVars,
                   adminVars>>

\* save_conversation_turn: await add_message(session_id, "assistant", ...)
AddAssistantMessage(r) ==
    /\ rq_pc[r] = "save_assistant"
    /\ stored' = add_message(stored, r, "assistant", Join(rq_delivered[r]))
    /\ rq_pc' = [rq_pc EXCEPT ![r] = "done"]
    /\ completed' = Append(completed, r)
    /\ UNCHANGED <<rq_user, rq_delivered, rq_events>>
    /\ UNCHANGED <<cacheVars, promptVars, sanVars, textVars, trimVars,
                   dbVars, chatVars, loopVars, kvVars, budgetVars,
                   adminVars>>

\* An add_message of the save raises (the database is locked, the disk is
\* full): generate_sse's handler sends an error event and the stream ends.
AddMessageFails(r) ==
    /\ rq_pc[r] \in {"save_user", "save_assistant"}
    /\ rq_pc' = [rq_pc EXCEPT ![r] = "failed"]
    /\ rq_events' = [rq_events EXCEPT ![r] = Append(@, "error")]
    /\ completed' = Append(completed, r)
    /\ UNCHANGED <<stored, rq_user, rq_delivered>>
    /\ UNCHANGED <<cacheVars, promptVars, sanVars, textVars, trimVars,
                   dbVars, chatVars, loopVars, kvVars, budgetVars,
                   adminVars>>

\* a disconnect after which what was delivered is saved as the turn
ClientDisconnectSavingPartial(r) ==
    /\ rq_pc[r] = "streaming"
    /\ rq_pc' = [rq_pc EXCEPT ![r] = "cancelled"]
    /\ stored' = add_message(add_message(stored, r, "user", rq_user[r]),
                             r, "assistant", Join(rq_delivered[r]))
    /\ UNCHANGED <<rq_user, rq_delivered, completed, rq_events>>
    /\ UNCHANGED <<cacheVars, promptVars, sanVars, textVars, trimVars,
                   dbVars, chatVars, loopVars, kvVars, budgetVars,
                   adminVars>>

\* The client of a streaming request disconnects before the terminal event:
\* generate_sse is cancelled at its yield and never reaches the save.
ClientDisconnect(r) ==
    /\ rq_pc[r] = "streaming"
    /\ rq_pc' = [rq_pc EXCEPT ![r] = "cancelled"]
    /\ UNCHANGED <<stored, rq_user, rq_delivered, completed, rq_events>>
    /\ UNCHANGED <<cacheVars, promptVars, sanVars, textVars, trimVars,
                   dbVars, chatVars, loopVars, kvVars, budgetVars,
                   adminVars>>

NextSession ==
    \/ \E r \in Requests, content \in UserContents : ChatStart(r, content)
    \/ \E r \in Requests, token \in StreamTokens : StreamToken(r, token)
    \/ \E r \in Requests : StreamDone(r)
    \/ \E r \in Requests : StreamError(r)
    \/ \E r \in Requests : AddMessageFails(r)
    \/ \E r \in Requests : AddUserMessage(r)
    \/ \E r \in Requests : AddAssistantMessage(r)
    \/ \E r \in Requests : ClientDisconnect(r)

(***************************************************************************)
(* The database: the sessions and messages tables and the calls of         *)
(* Database, each one transaction.  utcnow is the wall clock: it can stand *)
(* still between two calls and it can be set back.  Nothing turns SQLite's *)
(* foreign keys on, so a message row can name a session that is not there. *)
(***************************************************************************)
SessionIds == {1, 2}
Times == 0..1
Absent == -1
Deleted == -2

InitDb ==
    /\ db_sessions = [s \in SessionIds |-> Absent]
    /\ db_messages = {}
    /\ db_now = 0
    /\ db_next_id = 1
    /\ db_result = [op |-> "none"]

\* the wall clock moves
SetClock(t) ==
    /\ t # db_now
    /\ db_now' = t
    /\ UNCHANGED <<db_sessions, db_messages, db_next_id, db_result>>
    /\ UNCHANGED <<cacheVars, promptVars, sanVars, textVars, trimVars,
                   sessionVars, chatVars, loopVars, kvVars, budgetVars,
                   adminVars>>

\* Database.create_session: a row with a fresh id
CreateSession(s) ==
    /\ db_sessions[s] = Absent
    /\ db_sessions' = [db_sessions EXCEPT ![s] = db_now]
    /\ db_result' = [op |-> "create_session", id |-> s]
    /\ UNCHANGED <<db_messages, db_now, db_next_id>>
    /\ UNCHANGED <<cacheVars, promptVars, sanVars, textVars, trimVars,
                   sessionVars, chatVars, loopVars, kvVars, budgetVars,
                   adminVars>>

\* Database.add_message
AddMessage(s) ==
    /\ db_next_id <= MaxRows
    /\ db_messages' = db_messages \cup
           {[id |-> db_next_id, session_id |-> s, created_at |-> db_now]}
    /\ db_sessions' = IF db_sessions[s] \in Times
                         THEN [db_sessions EXCEPT ![s] = db_now]
                         ELSE db_sessions
    /\ db_next_id' = db_next_id + 1
    /\ db_result' = [op |-> "add_message", id |-> db_next_id]
    /\ UNCHANGED db_now
    /\ UNCHANGED <<cacheVars, promptVars, sanVars, textVars, trimVars,
                   sessionVars, chatVars, loopVars, kvVars, budgetVars,
                   adminVars>>

\* the orders in which a SELECT without ORDER BY can return the rows
AnyOrder(rows) ==
    {q \in [1..Cardinality(rows) -> rows] : {q[i] : i \in DOMAIN q} = rows}

\* ... ORDER BY created_at: equal keys come in any order
OrderByCreatedAt(rows) ==
    {q \in AnyOrder(rows) :
        \A i \in 1..(Len(q) - 1) : q[i].created_at <= q[i + 1].created_at}

\* a query that returns the rows of the session in any order
GetSessionMessagesUnordered(s) ==
    /\ \E q \in AnyOrder({m \in db_messages : m.session_id = s}) :
           db_result' = [op |-> "get_session_messages", session_id |-> s,
                         messages |-> q]
    /\ UNCHANGED <<db_sessions, db_messages, db_now, db_next_id>>
    /\ UNCHANGED <<cacheVars, promptVars, sanVars, textVars, trimVars,
                   sessionVars, chatVars, loopVars, kvVars, budgetVars,
                   adminVars>>

\* Database.get_session_messages
GetSessionMessages(s) ==
    /\ \E q \in OrderByCreatedAt({m \in db_messages : m.session_id = s}) :
           db_result' = [op |-> "get_session_messages", session_id |-> s,
                         messages |-> q]
    /\ UNCHANGED <<db_sessions, db_messages, db_now, db_next_id>>
    /\ UNCHANGED <<cacheVars, promptVars, sanVars, textVars, trimVars,
                   sessionVars, chatVars, loopVars, kvVars, budgetVars,
                   adminVars>>

\* select(Session).where(Session.updated_at < cutoff_date)
sessions_to_delete(days) ==
    {s \in SessionIds : db_sessions[s] \in Times /\ db_sessions[s] < db_now - days}

\* a delete that leaves the messages of the deleted sessions in place
DeleteOldSessionsKeepingMessages(days) ==
    /\ db_sessions' = [s \in SessionIds |->
           IF s \in sessions_to_delete(days) THEN Deleted ELSE db_sessions[s]]
    /\ db_result' = [op |-> "delete_old_sessions", days |-> days,
                     count |-> Cardinality(sessions_to_delete(days))]
    /\ UNCHANGED <<db_messages, db_now, db_next_id>>
    /\ UNCHANGED <<cacheVars, promptVars, sanVars, textVars, trimVars,
                   sessionVars, chatVars, loopVars, kvVars, budgetVars,
                   adminVars>>

\* Database.delete_old_sessions: db.delete(session) cascades to the
\* session's messages (cascade="all, delete-orphan")
DeleteOldSessions(days) ==
    /\ db_sessions' = [s \in SessionIds |->
           IF s \in sessions_to_delete(days) THEN Deleted ELSE db_sessions[s]]
    /\ db_messages' =
           {m \in db_messages : m.session_id \notin sessions_to_delete(days)}
    /\ db_result' = [op |-> "delete_old_sessions", days |-> days,
                     count |-> Cardinality(sessions_to_delete(days))]
    /\ UNCHANGED <<db_now, db_next_id>>
    /\ UNCHANGED <<cacheVars, promptVars, sanVars, textVars, trimVars,
                   sessionVars, chatVars, loopVars, kvVars, budgetVars,
                   adminVars>>

NextDb ==
    \/ \E t \in Times : SetClock(t)
    \/ \E s \in SessionIds : CreateSession(s)
    \/ \E s \in SessionIds : AddMessage(s)
    \/ \E s \in SessionIds : GetSessionMessages(s)
    \/ \E days \in Times : DeleteOldSessions(days)

(***************************************************************************)
(* The model registry over the models directory, and a chat request from   *)
(* the endpoint to the engine call.  A config.json that parses names the   *)
(* directory it is in.                                                     *)
(***************************************************************************)
ModelDirs == {"a", "b"}

\* what config.json holds: nothing (no file), text that does not parse, or a
\* configuration with this family
ConfigFiles == {"none", "invalid", "qwen", "llama"}

NoDir == [gguf |-> FALSE, config |-> "absent"]

InitRegistry ==
    /\ fs_dirs = [n \in ModelDirs |-> NoDir]
    /\ rg_models = {}
    /\ ch_result = [op |-> "none"]

\* the user installs, changes or removes a model directory
WriteModelDir(n, gguf, config) ==
    /\ fs_dirs' = [fs_dirs EXCEPT ![n] = [gguf |-> gguf, config |-> config]]
    /\ fs_dirs' # fs_dirs
    /\ ch_result' = [op |-> "write"]
    /\ UNCHANGED rg_models
    /\ UNCHANGED <<cacheVars, promptVars, sanVars, textVars, trimVars,
                   sessionVars, dbVars, loopVars, kvVars, budgetVars,
                   adminVars>>

\* ModelRegistry._load_model_info(model_dir): is a ModelInfo returned
load_model_info(dir) ==
    /\ dir.gguf
    /\ dir.config # "invalid"

\* ModelRegistry.scan_models
ScanModels ==
    /\ rg_models' = {n \in ModelDirs : fs_dirs[n] # NoDir /\ load_model_info(fs_dirs[n])}
    /\ ch_result' = [op |-> "scan_models"]
    /\ UNCHANGED fs_dirs
    /\ UNCHANGED <<cacheVars, promptVars, sanVars, textVars, trimVars,
                   sessionVars, dbVars, loopVars, kvVars, budgetVars,
                   adminVars>>

\* ModelRegistry.get_model(name): found, or ModelNotFoundError
get_model(n) == IF n \in rg_models THEN "ok" ELSE "ModelNotFoundError"

\* ModelRegistry.get_model_config(name): the family of the configuration
\* returned, or what is raised
get_model_config(n) ==
    IF fs_dirs[n].config \in {"absent", "none"}
    THEN IF get_model(n) = "ok" THEN [kind |-> "ok", family |-> "unknown"]
         ELSE [kind |-> "ModelNotFoundError"]
    ELSE IF fs_dirs[n].config = "invalid" THEN [kind |-> "Exception"]
    ELSE [kind |-> "ok", family |-> fs_dirs[n].config]

NoSession == 0

\* the stop sequences a request can give in options.stop (none, or END)
OptionStops == {<<>>, << <<"E", "N", "D">> >>}

\* the except clauses of the chat endpoint
StatusOf(exc) ==
    CASE exc = "none" -> 200
      [] exc = "ModelNotFoundError" -> 404
      [] exc = "InferenceError" -> 500
      [] exc \in {"SessionNotFoundError", "ContextWindowExceededError"} -> 400
      [] OTHER -> 500

\* POST /api/chat with messages [user 'Hi']: RuntimeManager.chat up to the
\* engine call, and the status of the response
Chat(name, session_id, stop) ==
    LET found == session_id = NoSession \/ db_sessions[session_id] \in Times
        config == get_model_config(name)
        exc ==
            IF ~found THEN "SessionNotFoundError"
            ELSE IF config.kind # "ok" THEN config.kind
            ELSE IF config.family \notin Families THEN "ValueError"
            ELSE LET built == BuildPromptOf(config.family,
                                  <<[role |-> "user", content |-> <<"H", "i">>]>>)
                 IN IF built.kind # "ok" THEN built.kind ELSE "none"
    IN /\ IF session_id = NoSession
          THEN \E s \in SessionIds :
                  /\ db_sessions[s] = Absent
                  /\ db_sessions' = [db_sessions EXCEPT ![s] = db_now]
                  /\ db_result' = [op |-> "create_session", id |-> s]
          ELSE UNCHANGED <<db_sessions, db_result>>
       /\ ch_result' =
             [op |-> "chat", model |-> name, session_id |-> session_id,
              stop |-> stop, found |-> found, resolved |-> config.kind = "ok",
              status |-> StatusOf(exc),
              engine_stop |-> IF exc = "none"
                              THEN get_template(config.family).stop_tokens
                              ELSE <<>>]
       /\ UNCHANGED <<fs_dirs, rg_models, db_messages, db_now, db_next_id>>
       /\ UNCHANGED <<cacheVars, promptVars, sanVars, textVars, trimVars,
                      sessionVars, loopVars, kvVars, budgetVars, adminVars>>

NextChat ==
    \/ \E n \in ModelDirs, gguf \in BOOLEAN, config \in ConfigFiles :
          WriteModelDir(n, gguf, config)
    \/ ScanModels
    \/ \E n \in ModelDirs, s \in SessionIds \cup {NoSession}, stop \in OptionStops :
          Chat(n, s, stop)

(***************************************************************************)
(* The server's event loop.  Every endpoint is an `async def`, so each     *)
(* handler runs on the one event loop thread and leaves it only at an      *)
(* await or at a yield of its response stream.  The token generator is a   *)
(* plain iterator: next() on it (the model load on the first call, then    *)
(* the generation of a token) runs on that thread until it returns.        *)
(***************************************************************************)
\* POST /api/chat and POST /api/generate
InferenceHandlers == {1, 2}

\* requests that run no inference, such as GET /health
PlainHandlers == {3, 4}

NoHandler == 0

InitLoop ==
    /\ loop_running = NoHandler
    /\ hd_pc = [h \in InferenceHandlers \cup PlainHandlers |-> "none"]
    /\ hd_stream = [h \in InferenceHandlers |-> TRUE]
    /\ hd_tokens = [h \in InferenceHandlers |-> 0]

\* a request is accepted and its handler is scheduled on the loop
Arrive(h, streaming) ==
    /\ hd_pc[h] = "none"
    /\ hd_pc' = [hd_pc EXCEPT ![h] = "ready"]
    /\ hd_stream' = IF h \in InferenceHandlers
                       THEN [hd_stream EXCEPT ![h] = streaming]
                       ELSE hd_stream
    /\ UNCHANGED <<loop_running, hd_tokens>>
    /\ UNCHANGED <<cacheVars, promptVars, sanVars, textVars, trimVars,
                   sessionVars, dbVars, chatVars, kvVars, budgetVars,
                   adminVars>>

\* The loop runs an inference handler, which calls next(token_generator):
\* the model load or the generation of a token starts on the loop thread.
Resume(h) ==
    /\ h \in InferenceHandlers
    /\ hd_pc[h] = "ready"
    /\ loop_running = NoHandler
    /\ loop_running' = h
    /\ hd_pc' = [hd_pc EXCEPT ![h] = "native"]
    /\ UNCHANGED <<hd_stream, hd_tokens>>
    /\ UNCHANGED <<cacheVars, promptVars, sanVars, textVars, trimVars,
                   sessionVars, dbVars, chatVars, kvVars, budgetVars,
                   adminVars>>

\* next() returns.  With a token, a streaming handler yields its event and
\* leaves the loop, while list(token_generator) calls next() again at once;
\* at the end of the generator the handler finishes.
NativeReturns(h) ==
    /\ hd_pc[h] = "native"
    /\ IF hd_tokens[h] < MaxDelivered
       THEN /\ hd_tokens' = [hd_tokens EXCEPT ![h] = @ + 1]
            /\ IF hd_stream[h]
               THEN /\ hd_pc' = [hd_pc EXCEPT ![h] = "ready"]
                    /\ loop_running' = NoHandler
               ELSE UNCHANGED <<hd_pc, loop_running>>
       ELSE /\ hd_pc' = [hd_pc EXCEPT ![h] = "done"]
            /\ loop_running' = NoHandler
            /\ UNCHANGED hd_tokens
    /\ UNCHANGED hd_stream
    /\ UNCHANGED <<cacheVars, promptVars, sanVars, textVars, trimVars,
                   sessionVars, dbVars, chatVars, kvVars, budgetVars,
                   adminVars>>

\* the loop runs a plain handler to its response
Serve(h) ==
    /\ h \in PlainHandlers
    /\ hd_pc[h] = "ready"
    /\ loop_running = NoHandler
    /\ hd_pc' = [hd_pc EXCEPT ![h] = "done"]
    /\ UNCHANGED <<loop_running, hd_stream, hd_tokens>>
    /\ UNCHANGED <<cacheVars, promptVars, sanVars, textVars, trimVars,
                   sessionVars, dbVars, chatVars, kvVars, budgetVars,
                   adminVars>>

NextLoop ==
    \/ \E h \in InferenceHandlers \cup PlainHandlers, streaming \in BOOLEAN :
          Arrive(h, streaming)
    \/ \E h \in InferenceHandlers : Resume(h)
    \/ \E h \in InferenceHandlers : NativeReturns(h)
    \/ \E h \in PlainHandlers : Serve(h)

(***************************************************************************)
(* Cache (storage/cache.py): an OrderedDict of key -> (value, expiry),      *)
(* oldest first, with a time-to-live per entry and LRU eviction.  The      *)
(* clock is time.time(), in whole ticks.                                   *)
(***************************************************************************)
MaxSize == 2
MaxTtl == 2
MaxClock == 3

Keys == {"k1", "k2"}
Values == {1, 2}
\* ttl=None
NoTtl == -1
NoEntry == [set |-> FALSE]

KvKeys(c) == {c[i].key : i \in 1..Len(c)}

\* self._cache[k]
KvLookup(c, k) == c[CHOOSE i \in 1..Len(c) : c[i].key = k]

\* del self._cache[k]
KvWithout(c, k) == SelectSeq(c, LAMBDA x : x.key # k)

\* the while loop of set: the oldest entries go until the size fits
RECURSIVE KvEvict(_, _)
KvEvict(c, max_size) ==
    IF Len(c) > max_size THEN KvEvict(Tail(c), max_size) ELSE c

\* Cache(max_size, default_ttl)
InitKv ==
    /\ kv_cache = <<>>
    /\ kv_max_size \in 1..MaxSize
    /\ kv_default_ttl \in 1..MaxTtl
    /\ kv_now = 0
    /\ kv_result = [op |-> "none"]
    /\ kv_hist = [k \in Keys |-> NoEntry]

KvIdle == InitKv /\ kv_max_size = MaxSize /\ kv_default_ttl = MaxTtl

\* Cache.set(k, v, ttl)
CacheSet(k, v, ttl) ==
    LET expiry == kv_now + (IF ttl # NoTtl THEN ttl ELSE kv_default_ttl)
        put == KvWithout(kv_cache, k) \o <<[key |-> k, value |-> v, expiry |-> expiry]>>
        kept == KvEvict(put, kv_max_size)
    IN /\ kv_cache' = kept
       /\ kv_result' = [op |-> "set", key |-> k]
       /\ kv_hist' = [j \in Keys |->
                        IF j \notin KvKeys(kept) /\ j \in KvKeys(put) THEN NoEntry
                        ELSE IF j = k
                             THEN [set |-> TRUE, value |-> v, expiry |-> expiry]
                             ELSE kv_hist[j]]
       /\ UNCHANGED <<kv_max_size, kv_default_ttl, kv_now>>
       /\ UNCHANGED <<cacheVars, promptVars, sanVars, textVars, trimVars,
                      sessionVars, dbVars, chatVars, loopVars, budgetVars,
                      adminVars>>

\* a get that never looks at the expiry
CacheGetIgnoringExpiry(k) ==
    /\ IF k \notin KvKeys(kv_cache)
       THEN /\ kv_result' = [op |-> "get", key |-> k, hit |-> FALSE]
            /\ UNCHANGED kv_cache
       ELSE /\ kv_cache' = KvWithout(kv_cache, k) \o <<KvLookup(kv_cache, k)>>
            /\ kv_result' = [op |-> "get", key |-> k, hit |-> TRUE,
                             value |-> KvLookup(kv_cache, k).value]
    /\ UNCHANGED <<kv_max_size, kv_default_ttl, kv_now, kv_hist>>
    /\ UNCHANGED <<cacheVars, promptVars, sanVars, textVars, trimVars,
                   sessionVars, dbVars, chatVars, loopVars, budgetVars,
                   adminVars>>

\* Cache.get(k)
CacheGet(k) ==
    /\ IF k \notin KvKeys(kv_cache)
       THEN /\ kv_result' = [op |-> "get", key |-> k, hit |-> FALSE]
            /\ UNCHANGED kv_cache
       ELSE IF kv_now > KvLookup(kv_cache, k).expiry
       THEN /\ kv_cache' = KvWithout(kv_cache, k)
            /\ kv_result' = [op |-> "get", key |-> k, hit |-> FALSE]
       ELSE /\ kv_cache' = KvWithout(kv_cache, k) \o <<KvLookup(kv_cache, k)>>
            /\ kv_result' = [op |-> "get", key |-> k, hit |-> TRUE,
                             value |-> KvLookup(kv_cache, k).value]
    /\ UNCHANGED <<kv_max_size, kv_default_ttl, kv_now, kv_hist>>
    /\ UNCHANGED <<cacheVars, promptVars, sanVars, textVars, trimVars,
                   sessionVars, dbVars, chatVars, loopVars, budgetVars,
                   adminVars>>

\* Cache.invalidate(k)
CacheInvalidate(k) ==
    /\ kv_cache' = KvWithout(kv_cache, k)
    /\ kv_result' = [op |-> "invalidate", key |-> k]
    /\ kv_hist' = [kv_hist EXCEPT ![k] = NoEntry]
    /\ UNCHANGED <<kv_max_size, kv_default_ttl, kv_now>>
    /\ UNCHANGED <<cacheVars, promptVars, sanVars, textVars, trimVars,
                   sessionVars, dbVars, chatVars, loopVars, budgetVars,
                   adminVars>>

\* Cache.cleanup_expired()
CacheCleanupExpired ==
    /\ kv_cache' = SelectSeq(kv_cache, LAMBDA x : ~(kv_now > x.expiry))
    /\ kv_result' = [op |-> "cleanup_expired",
                     removed |-> Len(kv_cache) - Len(kv_cache')]
    /\ UNCHANGED <<kv_max_size, kv_default_ttl, kv_now, kv_hist>>
    /\ UNCHANGED <<cacheVars, promptVars, sanVars, textVars, trimVars,
                   sessionVars, dbVars, chatVars, loopVars, budgetVars,
                   adminVars>>

\* the clock advances
AdvanceClock ==
    /\ kv_now < MaxClock
    /\ kv_now' = kv_now + 1
    /\ kv_result' = [op |-> "tick"]
    /\ UNCHANGED <<kv_cache, kv_max_size, kv_default_ttl, kv_hist>>
    /\ UNCHANGED <<cacheVars, promptVars, sanVars, textVars, trimVars,
                   sessionVars, dbVars, chatVars, loopVars, budgetVars,
                   adminVars>>

NextKv ==
    \/ \E k \in Keys, v \in Values, ttl \in {NoTtl} \cup (0..MaxTtl) : CacheSet(k, v, ttl)
    \/ \E k \in Keys : CacheGet(k)
    \/ \E k \in Keys : CacheInvalidate(k)
    \/ CacheCleanupExpired
    \/ AdvanceClock

(***************************************************************************)
(* The context budget of a chat request: runtime.chat reserves room for    *)
(* the generation, inference._merge_options decides the max_tokens the     *)
(* engine is given.                                                        *)
(***************************************************************************)
\* options is None, or options.max_tokens is None
NoValue == -1
\* the generation reserve when the request names none
FallbackMaxTokens == 512
\* the safety buffer
SafetyBuffer == 100

\* model_config.context_size
ContextSizes == {1024, 2048, 4096, 8192}
\* options.max_tokens (ge=1), or none
OptionMaxTokens == {NoValue, 1, 256, 512, 1024}
\* Settings.default_max_tokens: the default and two configured values
DefaultMaxTokens == {256, 512, 1024}

\* runtime.chat: prompt_max_tokens
prompt_max_tokens(context_size, max_tokens) ==
    LET max_tokens_generation ==
            IF max_tokens # NoValue /\ max_tokens # 0 THEN max_tokens
            ELSE FallbackMaxTokens
    IN context_size - max_tokens_generation - SafetyBuffer

\* InferenceService._merge_options(options)["max_tokens"]
merge_options(max_tokens, default_max_tokens) ==
    IF max_tokens # NoValue THEN max_tokens ELSE default_max_tokens

InitBudget ==
    /\ bg_context_size \in ContextSizes
    /\ bg_max_tokens \in OptionMaxTokens
    /\ bg_default_max_tokens \in DefaultMaxTokens
    /\ bg_result = [op |-> "none"]

BudgetIdle ==
    /\ bg_context_size = 4096
    /\ bg_max_tokens = NoValue
    /\ bg_default_max_tokens = 512
    /\ bg_result = [op |-> "none"]

\* a chat request, from the budget to the engine call
ChatInfer ==
    /\ bg_result.op = "none"
    /\ bg_result' = [op |-> "chat",
                     prompt_max_tokens |-> prompt_max_tokens(bg_context_size, bg_max_tokens),
                     max_tokens |-> merge_options(bg_max_tokens, bg_default_max_tokens)]
    /\ UNCHANGED <<bg_context_size, bg_max_tokens, bg_default_max_tokens>>
    /\ UNCHANGED <<cacheVars, promptVars, sanVars, textVars, trimVars,
                   sessionVars, dbVars, chatVars, loopVars, kvVars,
                   adminVars>>

NextBudget == ChatInfer

(***************************************************************************)
(* The model cache with a registry rescan (reload_registry, scan_models).  *)
(***************************************************************************)
\* ModelRegistry.scan_models(): _models is cleared and every model found is
\* registered again with loaded=False
RescanModels ==
    /\ reg_loaded' = [n \in Names |-> FALSE]
    /\ closeLog' = <<>>
    /\ UNCHANGED <<max_models, loaded, lock, engines, pc, model_name, model,
                   raised, recency, loads>>
    /\ UNCHANGED <<promptVars, sanVars, textVars, trimVars, sessionVars,
                   dbVars, chatVars, loopVars, kvVars, budgetVars,
                   adminVars>>

NextRescan ==
    \/ \E p \in Procs, n \in Names : Call(p, n)
    \/ \E p \in Procs : GetHit(p)
    \/ \E p \in Procs : GetMiss(p)
    \/ \E p \in Procs : LoadOk(p)
    \/ \E p \in Procs : LoadFail(p)
    \/ \E p \in Procs : InferStart(p)
    \/ \E p \in Procs : InferEnd(p)
    \/ \E p \in Procs : Finish(p)
    \/ \E n \in Names : Unload(n)
    \/ UnloadAll
    \/ RescanModels

(***************************************************************************)
(* The model cache with callers of its other methods: each takes the lock, *)
(* does its work and releases it.                                          *)
(***************************************************************************)
Admins == {1}

NoCall == [op |-> "none", name |-> NoName]

\* the methods; the name is_loaded is given changes nothing in the loader and
\* is left out
AdminCalls ==
    {[op |-> "unload_model", name |-> n] : n \in Names}
    \cup {[op |-> o, name |-> NoName] :
             o \in {"unload_all", "is_loaded", "get_loaded_models"}}

InitAdmin ==
    /\ adm_pc = [a \in Admins |-> "idle"]
    /\ adm_op = [a \in Admins |-> NoCall]

AdminIdle == InitAdmin

\* a caller enters unload_model, unload_all, is_loaded or get_loaded_models
\* and reaches `with self._lock`
AdminCall(a, call) ==
    /\ adm_pc[a] = "idle"
    /\ adm_pc' = [adm_pc EXCEPT ![a] = "wait"]
    /\ adm_op' = [adm_op EXCEPT ![a] = call]
    /\ UNCHANGED cacheVars
    /\ UNCHANGED <<promptVars, sanVars, textVars, trimVars, sessionVars,
                   dbVars, chatVars, loopVars, kvVars, budgetVars>>

\* the caller takes the lock, runs the body of its method and returns
AdminReturn(a) ==
    /\ adm_pc[a] = "wait"
    /\ LockFree
    /\ LET fin == CASE adm_op[a].op = "unload_model"
                         -> UnloadModel(LoaderState, adm_op[a].name)
                    [] adm_op[a].op = "unload_all"
                         -> UnloadEach(LoaderState,
                                       [i \in 1..Len(loaded) |-> loaded[i].name])
                    [] OTHER -> LoaderState
       IN /\ loaded' = fin.c
          /\ engines' = Reclaim(fin.es, fin.c, Held(model))
          /\ reg_loaded' = fin.reg
          /\ closeLog' = IF adm_op[a].op = "unload_model" THEN fin.log ELSE <<>>
          /\ recency' = RecencyOf(recency, fin.c)
          /\ loads' = LoadsOf(loads, fin.c, Loading)
    /\ adm_pc' = [adm_pc EXCEPT ![a] = "idle"]
    /\ adm_op' = [adm_op EXCEPT ![a] = NoCall]
    /\ UNCHANGED <<max_models, lock, pc, model_name, model, raised>>
    /\ UNCHANGED <<promptVars, sanVars, textVars, trimVars, sessionVars,
                   dbVars, chatVars, loopVars, kvVars, budgetVars>>

NextLoader ==
    \/ \E p \in Procs, n \in Names : Call(p, n)
    \/ \E p \in Procs : GetHit(p)
    \/ \E p \in Procs : GetMiss(p)
    \/ \E p \in Procs : LoadOk(p)
    \/ \E p \in Procs : LoadFail(p)
    \/ \E p \in Procs : InferStart(p)
    \/ \E p \in Procs : InferEnd(p)
    \/ \E p \in Procs : Finish(p)
    \/ \E a \in Admins, call \in AdminCalls : AdminCall(a, call)
    \/ \E a \in Admins : AdminReturn(a)

\* Fair scheduling: a caller that can take the lock again and again does
\* take it; a native load that has started returns or raises.
FairLoader ==
    /\ \A p \in Procs : SF_vars(GetHit(p) \/ GetMiss(p))
    /\ \A a \in Admins : SF_vars(AdminReturn(a))
    /\ \A p \in Procs : WF_vars(LoadOk(p) \/ LoadFail(p))

(***************************************************************************)
(* A long generation: a stop sequence early in the stream, then more       *)
(* tokens than the lookahead window holds.                                 *)
(***************************************************************************)
\* the positions at which the stop sequence arrives
StopPositions == 1..3

\* i - 1 tokens "a", the stop sequence as one token, then "a" until the
\* sequence has left the window of the last 20 tokens
LongStream(stop, i) ==
    [j \in 1..(i + BufferWindow + 1) |-> IF j = i THEN stop ELSE <<"a">>]

InitLongStream ==
    /\ stop_tokens \in {TEMPLATES[f].stop_tokens : f \in Families}
    /\ buffer = <<>>
    /\ result = None
    /\ emitted = <<>>
    /\ stream \in {LongStream(stop_tokens[1], i) : i \in StopPositions}

NextLongStream ==
    \/ SanitizeNext
    \/ Reset

(***************************************************************************)
(* Specifications.  Each one runs one component and holds the others in    *)
(* their initial state.                                                    *)
(***************************************************************************)
CacheIdle == InitCache /\ max_models = MaxCapacity

PromptIdle == InitPrompt /\ family = "llama"

SanIdle == InitSan /\ stop_tokens = TEMPLATES["llama"].stop_tokens

Init == InitCache /\ PromptIdle /\ SanIdle /\ TextIdle /\ TrimIdle /\ InitSession
    /\ InitDb /\ InitRegistry /\ InitLoop /\ KvIdle /\ BudgetIdle /\ AdminIdle
Next == NextCache
Spec == Init /\ [][Next]_vars

InitP == CacheIdle /\ InitPrompt /\ SanIdle /\ TextIdle /\ TrimIdle /\ InitSession
    /\ InitDb /\ InitRegistry /\ InitLoop /\ KvIdle /\ BudgetIdle /\ AdminIdle
SpecPrompt == InitP /\ [][NextPrompt]_vars

InitS == CacheIdle /\ PromptIdle /\ InitSan /\ TextIdle /\ TrimIdle /\ InitSession
    /\ InitDb /\ InitRegistry /\ InitLoop /\ KvIdle /\ BudgetIdle /\ AdminIdle
SpecSan == InitS /\ [][NextSan]_vars

InitSt == CacheIdle /\ PromptIdle /\ InitStream /\ TextIdle /\ TrimIdle /\ InitSession
    /\ InitDb /\ InitRegistry /\ InitLoop /\ KvIdle /\ BudgetIdle /\ AdminIdle
SpecStream == InitSt /\ [][NextStream]_vars

InitLg == CacheIdle /\ PromptIdle /\ InitLongStream /\ TextIdle /\ TrimIdle /\ InitSession
    /\ InitDb /\ InitRegistry /\ InitLoop /\ KvIdle /\ BudgetIdle /\ AdminIdle
SpecLongStream == InitLg /\ [][NextLongStream]_vars

InitT == CacheIdle /\ PromptIdle /\ InitSan /\ InitText /\ TrimIdle /\ InitSession
    /\ InitDb /\ InitRegistry /\ InitLoop /\ KvIdle /\ BudgetIdle /\ AdminIdle
SpecText == InitT /\ [][NextText]_vars

InitTk == CacheIdle /\ PromptIdle /\ SanIdle /\ TextIdle /\ InitTrim /\ InitSession
    /\ InitDb /\ InitRegistry /\ InitLoop /\ KvIdle /\ BudgetIdle /\ AdminIdle
SpecTrim == InitTk /\ [][NextTrim]_vars

InitSe == CacheIdle /\ PromptIdle /\ SanIdle /\ TextIdle /\ TrimIdle /\ InitSession
    /\ InitDb /\ InitRegistry /\ InitLoop /\ KvIdle /\ BudgetIdle /\ AdminIdle
SpecSession == InitSe /\ [][NextSession]_vars

InitD == CacheIdle /\ PromptIdle /\ SanIdle /\ TextIdle /\ TrimIdle /\ InitSession
    /\ InitDb /\ InitRegistry /\ InitLoop /\ KvIdle /\ BudgetIdle /\ AdminIdle
SpecDb == InitD /\ [][NextDb]_vars

InitC == CacheIdle /\ PromptIdle /\ SanIdle /\ TextIdle /\ TrimIdle /\ InitSession
    /\ InitDb /\ InitRegistry /\ InitLoop /\ KvIdle /\ BudgetIdle /\ AdminIdle
SpecChat == InitC /\ [][NextChat]_vars

InitL == CacheIdle /\ PromptIdle /\ SanIdle /\ TextIdle /\ TrimIdle /\ InitSession
    /\ InitDb /\ InitRegistry /\ InitLoop /\ KvIdle /\ BudgetIdle /\ AdminIdle
SpecLoop == InitL /\ [][NextLoop]_vars

InitK == CacheIdle /\ PromptIdle /\ SanIdle /\ TextIdle /\ TrimIdle /\ InitSession
    /\ InitDb /\ InitRegistry /\ InitLoop /\ InitKv /\ BudgetIdle /\ AdminIdle
SpecKv == InitK /\ [][NextKv]_vars

InitB == CacheIdle /\ PromptIdle /\ SanIdle /\ TextIdle /\ TrimIdle /\ InitSession
    /\ InitDb /\ InitRegistry /\ InitLoop /\ KvIdle /\ InitBudget /\ AdminIdle
SpecBudget == InitB /\ [][NextBudget]_vars

SpecRescan == Init /\ [][NextRescan]_vars

\* the cache with one capacity, the callers of its other methods, and fairness
InitLd == Init /\ max_models = 1
SpecLoader == InitLd /\ [][NextLoader]_vars /\ FairLoader

(***************************************************************************)
(* Properties of the model cache.                                          *)
(***************************************************************************)
Holding(p) == pc[p] \in {"have", "gen"}

Returns(p) == pc[p] \in {"wait", "loading"} /\ pc'[p] = "have"

Range(s) == {s[i] : i \in 1..Len(s)}

C3_HeldEngineNeverClosed ==
    \A p \in Procs : Holding(p) => engines[model[p]].open

\* C4: at most one generate / embed runs on an engine instance at a time.
C4_OneInferencePerEngine ==
    \A p, q \in Procs :
        (p # q /\ pc[p] = "gen" /\ pc[q] = "gen") => model[p] # model[q]

\* what a load of n must evict, by the recency history: the least recently
\* used names beyond the capacity
LruOrder(n) == recency \o <<n>>

LruExcess(n) ==
    IF Len(LruOrder(n)) > max_models THEN Len(LruOrder(n)) - max_models ELSE 0

\* C5: a successful load that overfills the cache evicts exactly the least
\* recently used entries down to the capacity, calls close() once on each of
\* their engines before it returns, and closes no other engine.
C5_EvictsExactlyLRU ==
    [][\A p \in Procs : (pc[p] = "loading" /\ pc'[p] = "have") =>
         LET n == model_name[p]
             k == LruExcess(n)
         IN /\ [i \in 1..Len(loaded') |-> loaded'[i].name]
                  = SubSeq(LruOrder(n), k + 1, Len(LruOrder(n)))
            /\ closeLog' = [i \in 1..k |-> Lookup(loaded, LruOrder(n)[i])]
            /\ \A e \in Slots :
                 engines[e].open => (engines'[e].open <=> e \notin Range(closeLog'))]_vars

\* capacity 2: a third name was just loaded and one engine evicted
C5_Witness ==
    /\ max_models = 2
    /\ Len(loaded) = 2
    /\ Len(closeLog) = 1
    /\ \E p \in Procs : pc[p] = "have" /\ loaded[2].model = model[p]

\* a step in which the native load of caller p fails
LoadFails(p) == pc[p] = "loading" /\ pc'[p] = "raised"

GuardedTokens == {BOS_S, EOS_S, BOS_LLAMA3}

\* BOS/EOS and the stop tokens of a template
ControlTokens(t) ==
    ({t.bos_token, t.eos_token} \cup Range(t.stop_tokens)) \ {<<>>}

RegistryControlTokens ==
    GuardedTokens \cup UNION {ControlTokens(TEMPLATES[f]) : f \in Families}

\* the template's own text places the token
Places(t, tok) ==
    \E s \in {t.bos_token, t.system_format, t.user_format, t.assistant_format} :
        Contains(s, tok)

ContentsOf(msgs) == {msgs[i].content : i \in 1..Len(msgs)}

\* the prompt of the same roles with every content empty
Skeleton(t, msgs) ==
    TemplateBuildPrompt(t, [i \in 1..Len(msgs) |-> [role |-> msgs[i].role,
            content |-> <<>>]])

\* C7: for every registered family and every non-empty message list whose
\* contents hold no control token, build_prompt returns a prompt, and that
\* prompt ends with the family's assistant prefix when the last message is
\* not the assistant's.
C7_BuildSucceedsWithOpenAssistantTurn ==
    (/\ chat_pc # "collect"
     /\ all_messages # <<>>
     /\ \A c \in ContentsOf(all_messages), tok \in RegistryControlTokens :
            ~Contains(c, tok))
    => /\ prompt.kind = "ok"
       /\ all_messages[Len(all_messages)].role # "assistant"
            => EndsWith(prompt.text,
                    SplitHead(get_template(family).assistant_format))

\* C8: when a content holds <s>, </s> or <|begin_of_text|> and the family's
\* template does not place that token, build_prompt raises RuntimeError, the
\* request ends there and no prompt is ever handed to the engine.
C8_LeakedTokenAbortsRequest ==
    (/\ chat_pc # "collect"
     /\ \E c \in ContentsOf(all_messages), tok \in GuardedTokens :
            Contains(c, tok) /\ ~Places(get_template(family), tok))
    => /\ chat_pc = "raised"
       /\ prompt.kind = "RuntimeError"
       /\ engine_prompt = NoPrompt

C8_Witness ==
    /\ family = "llama3"
    /\ all_messages = <<[role |-> "user", content |-> Content_boom]>>
    /\ chat_pc = "raised"
    /\ prompt.kind = "RuntimeError"

\* C9: in every returned prompt each control token of the family occurs
\* exactly where the template placed it: as often as in the prompt of the
\* same roles with empty contents.
C9_ControlTokensOnlyFromTemplate ==
    (chat_pc # "collect" /\ prompt.kind = "ok")
    => \A tok \in ControlTokens(get_template(family)) :
          Cardinality(Occurrences(prompt.text, tok))
          = Cardinality(Occurrences(Skeleton(get_template(family),
                  all_messages), tok))

\* C12: no token event delivered to the client, and no response text made of
\* them, holds a stop token or a role marker of the model's family.
C12_DeliveredStreamIsSanitized ==
    \A marker \in RoleMarkers(get_template(family))
                   \cup Range(get_template(family).stop_tokens) :
        /\ \A i \in 1..Len(delivered) : ~Contains(delivered[i], marker)
        /\ ~Contains(Join(delivered), marker)

(***************************************************************************)
(* Properties of the streaming sanitizer.                                  *)
(***************************************************************************)
\* C10: whatever raw tokens are fed one at a time to sanitize_token, the
\* concatenation of the results that are not None holds no configured stop
\* token.
C10_EmittedHasNoStopToken ==
    \A k \in 1..Len(stop_tokens) : ~Contains(emitted, stop_tokens[k])

\* C11: when a stop sequence straddles token boundaries, what has been
\* emitted once it is detected is exactly the raw text that precedes the stop
\* sequence, and nothing is emitted afterwards: the stream "Hel", "lo", " ",
\* "</", "s>", " ignored" with stop token </s> emits "Hello ".
C11_EmitsRawTextBeforeStop ==
    \A k \in 1..Len(stop_tokens) :
        Contains(Join(buffer), stop_tokens[k])
        => emitted = SubSeq(Join(buffer), 1, Find(Join(buffer), stop_tokens[k]) - 1)

\* the control markers every sanitized text is free of:
\* <s>, </s>, [INST], [/INST], <|im_start|>, <|im_end|>
KnownMarkers ==
    {BOS_S, EOS_S, INST, <<"[", "/", "I", "N", "S", "T", "]">>,
     <<"<", "|", "i", "m", "_", "s", "t", "a", "r", "t", "|", ">">>, IM_END}

\* C13: sanitize is idempotent: a second sanitize call returns the text it
\* was given.
C13_SanitizeIdempotent ==
    passes >= 2 => san_text = previous

\* C14: the result of sanitize holds no configured stop token, none of the
\* known control markers and no run of three newlines.
C14_SanitizedTextIsClean ==
    passes >= 1 =>
        /\ \A marker \in KnownMarkers \cup Range(stop_tokens) : ~Contains(san_text, marker)
        /\ ~Contains(san_text, <<"\n", "\n", "\n">>)

(***************************************************************************)
(* Properties of the budgeter.                                             *)
(***************************************************************************)
\* C15: a call with a budget at least as large as the last one returns at
\* least as many messages, and every message the last call retained.
C15_BudgeterMonotone ==
    [][(tk_calls >= 1 /\ tk_max_tokens' >= tk_max_tokens)
       => /\ Len(tk_result') >= Len(tk_result)
          /\ Range(tk_result) \subseteq Range(tk_result')]_vars

C15_Witness ==
    /\ tk_calls = 2
    /\ Len(tk_messages) = 3
    /\ Len(tk_result) = 2
    /\ \A i \in 1..3 : tk_messages[i].role # "system"

SystemPositions(ms) == {i \in 1..Len(ms) : ms[i].role = "system"}

ConversationPositions(ms) == {i \in 1..Len(ms) : ms[i].role # "system"}

LastConversationPosition(ms) ==
    CHOOSE i \in ConversationPositions(ms) : \A j \in ConversationPositions(ms) : j <= i

\* the system messages and the last non-system message, in order
MustKeep(ms) ==
    SelectSeq(Positions(ms),
              LAMBDA i : i \in SystemPositions(ms) \/ i = LastConversationPosition(ms))

\* C16: when the list has a non-system message, the result holds every
\* system message and the last non-system message, whatever the budget.
C16_KeepsSystemAndLast ==
    (tk_calls >= 1 /\ ConversationPositions(tk_messages) # {})
    => Range(MustKeep(tk_messages)) \subseteq Range(tk_result)

\* C17: when the system messages plus the last non-system message fit the
\* budget (as the budgeter charges them and as count_messages_tokens
\* estimates them for the family), count_messages_tokens of the result for
\* the family is at most the budget.
C17_ResultWithinBudget ==
    \A f \in Families :
        (/\ tk_calls >= 1
         /\ ConversationPositions(tk_messages) # {}
         /\ SumOver([i \in 1..Len(tk_messages) |-> message_tokens(tk_messages[i])],
                    MustKeep(tk_messages)) <= tk_max_tokens
         /\ count_messages_tokens(tk_messages, MustKeep(tk_messages), f) <= tk_max_tokens)
        => count_messages_tokens(tk_messages, tk_result, f) <= tk_max_tokens

(***************************************************************************)
(* Properties of session persistence.                                      *)
(***************************************************************************)
\* the rows a request wrote, in stored order
RowsOf(r) == SelectSeq(stored, LAMBDA m : m.request = r)

\* the requests of the stored turns, in stored order
TurnOrder == [i \in 1..(Len(stored) \div 2) |-> stored[2 * i].request]

\* C18: once no save is under way, the stored messages are whole turns (a
\* user message immediately followed by the same request's assistant
\* message) in the order in which the requests completed.
C18_WholeTurnsInCompletionOrder ==
    (\A r \in Requests : rq_pc[r] # "save_assistant")
    => /\ Len(stored) % 2 = 0
       /\ \A i \in 1..(Len(stored) \div 2) :
              /\ stored[2 * i - 1].role = "user"
              /\ stored[2 * i].role = "assistant"
              /\ stored[2 * i - 1].request = stored[2 * i].request
       /\ TurnOrder = SelectSeq(completed, LAMBDA r : RowsOf(r) # <<>>)

\* C19: a request that ran to completion has appended exactly two messages:
\* its user message, then an assistant message whose content is the
\* concatenation of the tokens delivered.
C19_CompletedRequestAppendsTurn ==
    \A r \in Requests :
        rq_pc[r] = "done"
        => RowsOf(r) = << [role |-> "user", content |-> rq_user[r], request |-> r],
                          [role |-> "assistant", content |-> Join(rq_delivered[r]),
                           request |-> r] >>

Terminals(r) == {i \in 1..Len(rq_events[r]) : rq_events[r][i] # "token"}

\* C21: a stream that has ended carries exactly one terminal event, and it
\* is the last event; after an exception during streaming that one event is
\* the error event.
C21_ExactlyOneTerminalEvent ==
    \A r \in Requests :
        rq_pc[r] \in {"done", "failed"}
        => /\ Terminals(r) = {Len(rq_events[r])}
           /\ "error" \in Range(rq_events[r])
                 => rq_events[r][Len(rq_events[r])] = "error"

\* C22: when the save fails after the tokens were delivered, the stream the
\* client sees holds no error event.
C22_SaveFailureOnlyLogged ==
    \A r \in Requests :
        (rq_pc[r] = "failed" /\ rq_delivered[r] # <<>>
           /\ rq_events[r][Len(rq_delivered[r]) + 1] = "done")
        => "error" \notin Range(rq_events[r])

(***************************************************************************)
(* Properties of the database.                                             *)
(***************************************************************************)
\* C23: what get_session_messages returns is exactly the rows of that
\* session, each once, in non-decreasing created_at order.
C23_SessionMessagesInCreatedOrder ==
    db_result.op = "get_session_messages"
    => LET q == db_result.messages
       IN /\ Range(q) = {m \in db_messages : m.session_id = db_result.session_id}
          /\ Len(q) = Cardinality(Range(q))
          /\ \A i \in 1..(Len(q) - 1) : q[i].created_at <= q[i + 1].created_at

\* two rows of a session inserted with the clock set back in between, and a
\* row of the other session
C23_Witness ==
    /\ db_result.op = "get_session_messages"
    /\ Len(db_result.messages) = 2
    /\ db_result.messages[1].id > db_result.messages[2].id
    /\ Cardinality(db_messages) = 3

\* C24: delete_old_sessions(days) deletes exactly the sessions whose
\* updated_at is before the cutoff and returns their number; the messages
\* of the deleted sessions are gone, and the other sessions and messages
\* are as they were.
C24_DeletesOldSessionsAndTheirMessages ==
    [][(db_result'.op = "delete_old_sessions" /\ db_now' = db_now)
       => LET old == {s \in SessionIds : db_sessions[s] \in Times
                                          /\ db_sessions[s] < db_now - db_result'.days}
          IN /\ \A s \in old : db_sessions'[s] = Deleted
             /\ \A s \in SessionIds \ old : db_sessions'[s] = db_sessions[s]
             /\ db_result'.count = Cardinality(old)
             /\ db_messages' = {m \in db_messages : m.session_id \notin old}]_vars

\* one session with a message was deleted, the other session and its message
\* are still there
C24_Witness ==
    /\ db_result.op = "delete_old_sessions"
    /\ db_result.count = 1
    /\ db_next_id = 3
    /\ \E m \in db_messages : db_sessions[m.session_id] \in Times
    /\ Cardinality(db_messages) = 1

(***************************************************************************)
(* Properties of the chat endpoint and the registry.                       *)
(***************************************************************************)
\* C25: the stop list the engine is called with is the template's stop
\* tokens together with the request's options.stop.
C25_EngineStopIncludesOptionsStop ==
    (ch_result.op = "chat" /\ ch_result.status = 200)
    => Range(ch_result.engine_stop)
         = Range(get_template(get_model_config(ch_result.model).family).stop_tokens)
           \cup Range(ch_result.stop)

\* C26: a chat request naming a session that is not in the store is
\* answered with status 404.
C26_UnknownSessionIs404 ==
    (ch_result.op = "chat" /\ ~ch_result.found) => ch_result.status = 404

\* C27: after a scan, a directory with a weights file and no config.json is
\* not resolvable: get_model and get_model_config raise model-not-found and
\* the name is not listed.
C27_NoConfigIsNotFound ==
    ch_result.op = "scan_models"
    => \A n \in ModelDirs :
          (fs_dirs[n].gguf /\ fs_dirs[n].config = "none")
          => /\ get_model(n) = "ModelNotFoundError"
             /\ get_model_config(n).kind = "ModelNotFoundError"
             /\ n \notin rg_models

\* C30: a chat request without session_id whose model does not resolve
\* fails with model-not-found and creates no session.
C30_ModelResolvedBeforeSession ==
    [][(ch_result'.op = "chat" /\ ch_result' # ch_result
         /\ ch_result'.session_id = NoSession /\ ~ch_result'.resolved)
       => /\ ch_result'.status = 404
          /\ db_sessions' = db_sessions]_vars

(***************************************************************************)
(* Properties of waiting.                                                  *)
(***************************************************************************)
\* C28: while a caller is in the native load of a name, a call that does not
\* depend on that name can complete: a hit on another cached name can
\* return, and another cached name can be unloaded.
C28_OthersProceedDuringLoad ==
    \A p \in Procs :
        pc[p] = "loading"
        => /\ \A q \in Procs :
                 (/\ pc[q] = "wait"
                  /\ model_name[q] # model_name[p]
                  /\ model_name[q] \in CachedNames(loaded))
                 => ENABLED GetHit(q)
           /\ \A m \in CachedNames(loaded) \ {model_name[p]} : ENABLED Unload(m)

\* C29: while a request's engine load or generation is in progress, an
\* unrelated request that has been accepted can be completed.
C29_UnrelatedRequestNotStalled ==
    \A h \in InferenceHandlers, u \in PlainHandlers :
        (hd_pc[h] = "native" /\ hd_pc[u] = "ready") => ENABLED Serve(u)

(***************************************************************************)
(* Properties of the save after a failure.                                 *)
(***************************************************************************)
\* the engine raised during the stream of r: the event after the delivered
\* tokens is the error event of stream_tokens_as_sse
EngineRaised(r) ==
    /\ Len(rq_events[r]) > Len(rq_delivered[r])
    /\ rq_events[r][Len(rq_delivered[r]) + 1] = "error"

\* C37: when the engine raised during the stream of a request, no message of
\* that request is in the session.
C37_EngineErrorPersistsNothing ==
    \A r \in Requests : EngineRaised(r) => RowsOf(r) = <<>>

\* C38: outside the save itself, and so also after a failed write of the
\* assistant message, a request's user message is in the session only
\* together with its assistant message.
C38_TurnSavedAtomically ==
    \A r \in Requests :
        rq_pc[r] # "save_assistant"
        => ((\E i \in 1..Len(RowsOf(r)) : RowsOf(r)[i].role = "user")
            => (\E i \in 1..Len(RowsOf(r)) : RowsOf(r)[i].role = "assistant"))

(***************************************************************************)
(* The shape of the budgeter's result.                                     *)
(***************************************************************************)
\* the non-system positions of ms from the k-th on, in order
ConversationSuffix(ms, k) ==
    SelectSeq(Positions(ms),
              LAMBDA i : /\ i \in ConversationPositions(ms)
                         /\ Cardinality({j \in ConversationPositions(ms) : j <= i}) >= k)

\* what the messages at positions idx cost, as the budgeter charges them
Charge(ms, idx) == SumOver([i \in 1..Len(ms) |-> message_tokens(ms[i])], idx)

\* C32: the result is every system message in order, then a contiguous
\* suffix of the non-system messages that ends with the last one; the suffix
\* fits the budget left after the system messages (or is the last message
\* alone) and the message before it would not fit as well.
C32_SystemThenLongestFittingSuffix ==
    tk_calls >= 1
    => LET ms == tk_messages
           n == Cardinality(ConversationPositions(ms))
           system == SelectSeq(Positions(ms), LAMBDA i : i \in SystemPositions(ms))
           available == tk_max_tokens - Charge(ms, system)
       IN IF n = 0 THEN tk_result = system
          ELSE \E k \in 1..n :
                   /\ tk_result = system \o ConversationSuffix(ms, k)
                   /\ k = n \/ Charge(ms, ConversationSuffix(ms, k)) <= available
                   /\ k = 1 \/ Charge(ms, ConversationSuffix(ms, k - 1)) > available

(***************************************************************************)
(* Properties of unload_model.                                             *)
(***************************************************************************)
\* C31: unload_model(n) on a cached n removes n, calls close() once on its
\* engine and on no other, and leaves every other entry cached, open and in
\* the same relative order; on a name that is not cached it changes nothing
\* and closes nothing.
C31_UnloadClosesOnlyNamed ==
    [][pc' = pc =>
         /\ \A n \in CachedNames(loaded) \ CachedNames(loaded') : Unload(n) =>
              LET e == Lookup(loaded, n)
              IN /\ loaded' = SelectSeq(loaded, LAMBDA x : x.name # n)
                 /\ closeLog' = <<e>>
                 /\ engines[e].open /\ ~engines'[e].open
                 /\ \A f \in CachedEngines(loaded') :
                        engines[f].open /\ engines'[f] = engines[f]
         /\ \A n \in Names \ CachedNames(loaded) :
              UnloadModel(LoaderState, n) = LoaderState]_vars

\* capacity 2: of two cached models one was just unloaded by name
C31_Witness ==
    /\ max_models = 2
    /\ Len(loaded) = 1
    /\ Len(closeLog) = 1
    /\ closeLog[1] \notin CachedEngines(loaded)
    /\ engines[loaded[1].model].open

(***************************************************************************)
(* Properties of a failed get_or_load_model.                               *)
(***************************************************************************)
\* C39: a get_or_load_model that fails leaves the cache as it was: the same
\* entries in the same order, no close() call, every engine that was alive
\* untouched, and no loaded flag of the registry changed.
C39_FailedLoadLeavesCache ==
    [][\A p \in Procs : LoadFails(p) =>
         /\ loaded' = loaded
         /\ reg_loaded' = reg_loaded
         /\ closeLog' = <<>>
         /\ \A e \in Slots \ {model[p]} : engines'[e] = engines[e]]_vars

\* a load has failed while the cache was full of open engines
C39_Witness ==
    \E p \in Procs :
        /\ pc[p] = "raised"
        /\ raised[p] = [kind |-> "ModelLoadError", by |-> p]
        /\ max_models = 2
        /\ Len(loaded) = 2
        /\ model_name[p] \notin CachedNames(loaded)
        /\ \A e \in CachedEngines(loaded) : engines[e].open
        /\ \A n \in CachedNames(loaded) : reg_loaded[n]

(***************************************************************************)
(* Properties of the TTL cache.                                            *)
(***************************************************************************)
\* C33: a get returns a value only when it is the value of the key's latest
\* set, that set's expiry time has not passed, and the key was neither
\* invalidated nor evicted since; a get that finds an entry whose expiry time
\* has passed removes the entry and reports a miss.
C33_GetReturnsOnlyLiveValue ==
    [][kv_result'.op = "get" =>
         LET k == kv_result'.key
         IN /\ kv_result'.hit =>
                  /\ kv_hist[k].set
                  /\ kv_hist[k].value = kv_result'.value
                  /\ ~(kv_now > kv_hist[k].expiry)
            /\ (k \in KvKeys(kv_cache) /\ kv_now > KvLookup(kv_cache, k).expiry) =>
                  /\ ~kv_result'.hit
                  /\ k \notin KvKeys(kv_cache')]_vars

\* a get has just found its key's entry expired and removed it, while the
\* other key's entry is still live
C33_Witness ==
    /\ kv_result.op = "get"
    /\ ~kv_result.hit
    /\ kv_hist[kv_result.key].set
    /\ kv_now > kv_hist[kv_result.key].expiry
    /\ Len(kv_cache) = 1
    /\ kv_cache[1].key # kv_result.key
    /\ ~(kv_now > kv_cache[1].expiry)

(***************************************************************************)
(* Properties of the registry's loaded flag.                               *)
(***************************************************************************)
\* C34: a registered model's loaded flag is true exactly when the model is
\* in the model cache.
C34_LoadedFlagMatchesCache ==
    \A n \in Names : reg_loaded[n] <=> n \in CachedNames(loaded)

(***************************************************************************)
(* Properties of the context budget.                                       *)
(***************************************************************************)
\* C35: the prompt budget, the max_tokens given to the engine and the safety
\* buffer of 100 add up to the context size.
C35_BudgetAddsUpToContext ==
    bg_result.op = "chat"
    => bg_result.prompt_max_tokens + bg_result.max_tokens + 100 = bg_context_size

(***************************************************************************)
(* Properties of a long generation.                                        *)
(***************************************************************************)
\* a stop sequence has gone through sanitize_token since the last reset()
StopSeen ==
    \E i \in 1..Len(buffer), k \in 1..Len(stop_tokens) : buffer[i] = stop_tokens[k]

\* C36: once a stop sequence was detected, every later sanitize_token
\* returns None, however many tokens follow, until reset().
C36_StopIsSticky ==
    StopSeen => result.none

(***************************************************************************)
(* Progress of the model cache.                                            *)
(***************************************************************************)
\* C40: under fair scheduling, with every native load ending, a caller
\* waiting in get_or_load_model gets its engine or its exception, and a
\* caller waiting in unload_model, unload_all, is_loaded or
\* get_loaded_models returns.
C40_EveryCallReturns ==
    /\ \A p \in Procs : (pc[p] = "wait") ~> (pc[p] \in {"have", "raised"})
    /\ \A a \in Admins : (adm_pc[a] = "wait") ~> (adm_pc[a] = "idle")

\* a native load holds the lock while a second get_or_load_model and an
\* unload_all wait for it
C40_Witness ==
    /\ pc[1] = "loading"
    /\ lock = 1
    /\ pc[2] = "wait"
    /\ adm_pc[1] = "wait"
    /\ adm_op[1].op = "unload_all"
    /\ loaded # <<>>

====
